---- MODULE Spec2Model ----
(***************************************************************************)
(* A model of the agent orchestration engine of rule-take-3:               *)
(*   tools/BaseTool.py       the tool contract (safe_execute)              *)
(*   tools/registry.py       the tool registry                             *)
(*   agents/messaging.py     the message channel (MessageQueue)            *)
(*   state/state_manager.py  the state store                               *)
(*   agents/base.py          the agent execution engine (Agent)            *)
(* asyncio is cooperative: the code between two awaits that really suspend *)
(* is one atomic action.                                                   *)
(***************************************************************************)
EXTENDS Naturals, Sequences, FiniteSets, TLC

VARIABLES
    \* ---- tools/BaseTool.py: one entry per tool object
    execution_count,   \* BaseTool._execution_count
    error_count,       \* BaseTool._error_count
    lastCall,          \* the most recent direct safe_execute() call and what came back
    invocations,       \* history: how often the Engine called safe_execute per tool name
    calls              \* history: the Engine's safe_execute calls (step, tool), in order

toolVars == <<execution_count, error_count, lastCall, invocations, calls>>

VARIABLES
    \* ---- tools/registry.py
    registry_tools,    \* ToolRegistry._tools: name -> tool object
    tool_metadata,     \* ToolRegistry._tool_metadata: name -> counters
    lastReg            \* the most recent register/unregister call and what came back

regVars == <<registry_tools, tool_metadata, lastReg>>

VARIABLES
    \* ---- agents/messaging.py
    running,           \* MessageQueue._running
    lock,              \* MessageQueue._lock: "free" or the task holding it
    queue,             \* MessageQueue._queue: the messages waiting, oldest first
    subscribers,       \* MessageQueue._subscribers: receiver -> handler
    chan_pc,           \* where each task is inside start() / stop()
    next_id,           \* messages constructed so far (message_id is unique)
    published,         \* send() calls made by publishers other than the Engine
    accepted,          \* history: ids of the messages send() has put on the queue
    dispatched,        \* history: the messages the dispatch loop has taken, in order
    last_subscribed    \* history: receiver -> handler of the latest subscribe()

chanVars == <<running, lock, queue, subscribers, chan_pc, next_id, published,
              accepted, dispatched, last_subscribed>>

VARIABLES
    \* ---- state/state_manager.py
    store,             \* table agent_states: <<agent_id, user_id>> -> row
    lastOp             \* history: the last operation a direct caller of the store made

storeVars == <<store, lastOp>>

VARIABLES
    \* ---- agents/base.py: one entry per Agent object
    cfg,               \* the AgentSpec the Agent was constructed with
    tool_kind,         \* per tool object: what its execute() does
    pc,                \* the await execute() is suspended in ("idle": not executing)
    agent_status,      \* Agent._status
    state_obj,         \* the local `state` of execute()
    step_idx,          \* position of the for loop of execute()
    tool_idx,          \* position of the for loop of _execute_step()
    step_results,      \* the local step_results of _execute_step()
    executed,          \* whether execute() has been called on the Agent object
    ended,             \* how execute() ended: "returned", "raised", "cancelled"
    exit_row,          \* history: the persisted row when the last execute() ended
    stop_seen,         \* history: the first stop handled in this run with a boundary ahead
    faulted,           \* history: whether a write of this run raised
    clock,             \* the newest reading datetime.now() has returned
    inits              \* initialize_state() calls made by callers so far

engVars == <<cfg, tool_kind, pc, agent_status, state_obj, step_idx, tool_idx,
             step_results, executed, ended, exit_row, stop_seen, faulted, clock,
             inits>>

VARIABLES
    \* ---- agents/generator.py, agent_executor.py, main.py: one batch
    batch,             \* the agents array of the response / of the rules
    batch_pc,          \* where the batch runner is
    batch_idx,         \* the entry of the batch in progress
    constructed,       \* history: names of the Agents constructed, in order
    ran,               \* history: names of the Agents whose execute() was awaited
    outcomes,          \* history: how each awaited execute() ended for the runner
    execution_status   \* st.session_state.execution_status: name -> status

batchVars == <<batch, batch_pc, batch_idx, constructed, ran, outcomes, execution_status>>

VARIABLES
    \* ---- state/state_manager.py: the lazy setup of one StateManager
    setup_done,        \* StateManager._setup_done
    store_lock,        \* StateManager._lock: its holder and the callers waiting, in order
    schema,            \* whether table agent_states exists in the database file
    db_pc,             \* where each caller of get/update/delete_state is inside _get_db
    db_op,             \* the operation each caller is making
    db_calls,          \* calls of get/update/delete_state made so far
    db_path,           \* history: how the caller's latest call got past the setup
    setups,            \* history: how often _setup_database has returned normally
    row_ops,           \* history: statements executed on the table so far
    op_without_setup   \* history: whether a statement was executed with _setup_done unset

setupVars == <<setup_done, store_lock, schema, db_pc, db_op, db_calls, db_path, setups,
               row_ops, op_without_setup>>

vars == <<toolVars, regVars, chanVars, storeVars, engVars, batchVars, setupVars>>

\* Everything but the channel.
otherVars == <<toolVars, regVars, storeVars, engVars, batchVars, setupVars>>

(***************************************************************************)
(* Bounds                                                                  *)
(***************************************************************************)
MaxCalls == 2          \* direct safe_execute() calls per tool object
MaxMsgs == 3           \* messages constructed by senders other than the Engine
MaxMid == 1            \* intermediate steps of an AgentSpec
MaxStops == 1          \* stop messages the controller sends
MaxStamp == 2          \* timestamps of the rows direct callers of the store write
MaxInits == 1          \* initialize_state() calls by callers other than execute()
MaxBatch == 2          \* entries of the agents array of a response
MaxRerunClock == 8     \* a further execute() of an Agent starts while the clock reads less
MaxDbCalls == 3        \* get/update/delete_state calls on the StateManager of SpecSetup

(***************************************************************************)
(* tools/BaseTool.py                                                       *)
(***************************************************************************)
\* Tool objects; two of them carry the same name.
ToolObjs == {"o1", "o2", "o3"}

\* Names from ToolRegistry._available_tools.
ToolNames == {"web_search", "db_tool"}

\* BaseTool.name
ToolNameOf(o) == IF o = "o3" THEN "db_tool" ELSE "web_search"

\* _validate_params: required_params = ["step", "user_id"]
RequiredParams == {"step", "user_id"}

\* The keys the Engine passes (base.py 135-142).
EngineParams == {"step", "user_id", "query", "current_state", "shared_data", "input_data"}

\* Keys a caller may put in params.
ParamKeys == {"step", "user_id"}

\* The tool objects that callers invoke directly.
DirectTools == {"o1", "o3"}

\* What the tool's own execute() does within one call:
\*   ok        returns a dict without a "state" entry
\*   ok_state  returns a dict with a "state" entry
\*   raise     raises an Exception
\*   timeout   does not return within the 30 s budget (wait_for raises TimeoutError)
\*   nondict   returns a value that is not a dict
ExecOutcomes == {"ok", "ok_state", "raise", "timeout", "nondict"}

NoState == [present |-> FALSE, keys |-> {}, error_count |-> 0]

\* The "state" a successful tool reports.
ToolState == [present |-> TRUE, keys |-> {"data"}, error_count |-> 0]

\* "state": {"last_error": ..., "error_count": self._error_count}  (lines 74-77)
ErrorState(n) == [present |-> TRUE, keys |-> {"last_error", "error_count"}, error_count |-> n]

\* The dict of lines 70-78.
ErrorResult(msg, n) ==
    [mapping |-> TRUE, status |-> "error", error |-> msg, state |-> ErrorState(n),
     metadata |-> FALSE]

\* The tool's own dict plus "execution_metadata" (lines 56-62).
OkResult(outcome) ==
    [mapping |-> TRUE, status |-> "success", error |-> "none",
     state |-> IF outcome = "ok_state" THEN ToolState ELSE NoState,
     metadata |-> TRUE]

\* A value that is not a dict.
NonMapping ==
    [mapping |-> FALSE, status |-> "none", error |-> "none", state |-> NoState,
     metadata |-> FALSE]

NoResult ==
    [mapping |-> FALSE, status |-> "absent", error |-> "none", state |-> NoState,
     metadata |-> FALSE]

\* _validate_params (lines 80-83)
ValidateParams(keys) == RequiredParams \subseteq keys

\* The exception raised inside the try block of safe_execute, "none" if none is:
\* line 36 (validation), line 49 (timeout), the tool's own exception out of
\* line 44, line 53 (result not a dict).
RaisedInTry(keys, outcome) ==
    IF ~ValidateParams(keys) THEN "Missing required parameters"
    ELSE IF outcome = "timeout" THEN "Tool execution timed out"
    ELSE IF outcome = "raise" THEN "tool exception"
    ELSE IF outcome = "nondict" THEN "Tool must return a dictionary"
    ELSE "none"

\* A handler that catches ToolExecutionError only: the tool's own exception escapes.
SafeExecuteNarrowExcept(keys, outcome, ec, errc) ==
    LET valid == ValidateParams(keys)
        exc   == RaisedInTry(keys, outcome)
    IN  IF exc = "none"
        THEN [raised |-> FALSE, invoked |-> TRUE, result |-> OkResult(outcome),
              execution_count |-> ec + 1, error_count |-> errc]
        ELSE IF exc = "tool exception"
        THEN [raised |-> TRUE, invoked |-> TRUE, result |-> NoResult,
              execution_count |-> ec + 1, error_count |-> errc]
        ELSE [raised |-> FALSE, invoked |-> valid,
              result |-> ErrorResult(exc, errc + 1),
              execution_count |-> IF valid THEN ec + 1 ELSE ec,
              error_count |-> errc + 1]

\* safe_execute (lines 31-78) on a tool whose counters are ec and errc: whether an
\* exception reaches the caller, whether execute() was invoked, the value returned
\* and the counters afterwards.  Line 40 increments _execution_count only after the
\* validation of line 35 has passed; line 65 increments _error_count in the handler.
SafeExecute(keys, outcome, ec, errc) ==
    LET valid == ValidateParams(keys)
        exc   == RaisedInTry(keys, outcome)
    IN  IF exc = "none"
        THEN [raised |-> FALSE, invoked |-> TRUE, result |-> OkResult(outcome),
              execution_count |-> ec + 1, error_count |-> errc]
        ELSE [raised |-> FALSE, invoked |-> valid,
              result |-> ErrorResult(exc, errc + 1),
              execution_count |-> IF valid THEN ec + 1 ELSE ec,
              error_count |-> errc + 1]

NoCall ==
    [tool |-> "none", keys |-> {}, outcome |-> "none", raised |-> FALSE,
     invoked |-> FALSE, result |-> NoResult, ec_before |-> 0, errc_before |-> 0]

InitTool ==
    /\ execution_count = [o \in ToolObjs |-> 0]
    /\ error_count = [o \in ToolObjs |-> 0]
    /\ lastCall = NoCall
    /\ invocations = [n \in ToolNames |-> 0]
    /\ calls = <<>>

\* A caller awaits tool.safe_execute(params) on tool object o.
DirectSafeExecute(o, keys, outcome) ==
    /\ execution_count[o] < MaxCalls
    /\ error_count[o] < MaxCalls
    /\ LET r == SafeExecute(keys, outcome, execution_count[o], error_count[o])
       IN  /\ execution_count' = [execution_count EXCEPT ![o] = r.execution_count]
           /\ error_count' = [error_count EXCEPT ![o] = r.error_count]
           /\ lastCall' = [tool |-> o, keys |-> keys, outcome |-> outcome,
                           raised |-> r.raised, invoked |-> r.invoked,
                           result |-> r.result,
                           ec_before |-> execution_count[o],
                           errc_before |-> error_count[o]]
    /\ UNCHANGED <<invocations, calls, regVars, chanVars, storeVars, engVars>>
    /\ UNCHANGED batchVars
    /\ UNCHANGED setupVars

NextTool ==
    \E o \in DirectTools, keys \in SUBSET ParamKeys, outcome \in ExecOutcomes :
        DirectSafeExecute(o, keys, outcome)

(***************************************************************************)
(* tools/registry.py                                                       *)
(***************************************************************************)
EmptyMap == [n \in {} |-> 0]

\* dict[key] = value
MapPut(f, key, value) ==
    [k \in DOMAIN f \cup {key} |-> IF k = key THEN value ELSE f[k]]

\* del dict[key]
MapDel(f, key) == [k \in DOMAIN f \ {key} |-> f[k]]

\* The metadata of lines 71-75 (registered_at is a timestamp, left out).
FreshMetadata == [execution_count |-> 0, error_count |-> 0]

\* register_tool without the check of lines 64-65: a second tool replaces the first.
RegisterToolOverwrite(tools, meta, o) ==
    [raised |-> "none",
     tools |-> MapPut(tools, ToolNameOf(o), o),
     meta |-> MapPut(meta, ToolNameOf(o), FreshMetadata)]

\* register_tool (lines 62-76) on the mappings tools and meta.
RegisterToolResult(tools, meta, o) ==
    IF ToolNameOf(o) \in DOMAIN tools
    THEN [raised |-> "ToolAlreadyRegisteredError", tools |-> tools, meta |-> meta]
    ELSE [raised |-> "none",
          tools |-> MapPut(tools, ToolNameOf(o), o),
          meta |-> MapPut(meta, ToolNameOf(o), FreshMetadata)]

\* unregister_tool (lines 78-86)
UnregisterToolResult(tools, meta, name) ==
    IF name \in DOMAIN tools
    THEN [returned |-> TRUE,
          tools |-> MapDel(tools, name),
          meta |-> IF name \in DOMAIN meta THEN MapDel(meta, name) ELSE meta]
    ELSE [returned |-> FALSE, tools |-> tools, meta |-> meta]

\* update_tool_metrics (lines 88-93)
UpdateToolMetricsResult(meta, name, success) ==
    IF name \in DOMAIN meta
    THEN [meta EXCEPT ![name] =
            [execution_count |-> @.execution_count + 1,
             error_count |-> IF success THEN @.error_count ELSE @.error_count + 1]]
    ELSE meta

\* get_tool (lines 54-56): the tool object, "none" when the name is not registered.
GetTool(name) ==
    IF name \in DOMAIN registry_tools THEN registry_tools[name] ELSE "none"

NoReg ==
    [op |-> "none", name |-> "none", tool |-> "none", raised |-> "none",
     tools_before |-> EmptyMap, meta_before |-> EmptyMap]

InitRegistry ==
    /\ registry_tools = EmptyMap
    /\ tool_metadata = EmptyMap
    /\ lastReg = NoReg

RegisterTool(o) ==
    /\ LET r == RegisterToolResult(registry_tools, tool_metadata, o)
       IN  /\ registry_tools' = r.tools
           /\ tool_metadata' = r.meta
           /\ lastReg' = [op |-> "register", name |-> ToolNameOf(o), tool |-> o,
                          raised |-> r.raised,
                          tools_before |-> registry_tools,
                          meta_before |-> tool_metadata]
    /\ UNCHANGED <<toolVars, chanVars, storeVars, engVars>>
    /\ UNCHANGED batchVars
    /\ UNCHANGED setupVars

UnregisterTool(name) ==
    /\ LET r == UnregisterToolResult(registry_tools, tool_metadata, name)
       IN  /\ registry_tools' = r.tools
           /\ tool_metadata' = r.meta
           /\ lastReg' = [op |-> "unregister", name |-> name, tool |-> "none",
                          raised |-> "none",
                          tools_before |-> registry_tools,
                          meta_before |-> tool_metadata]
    /\ UNCHANGED <<toolVars, chanVars, storeVars, engVars>>
    /\ UNCHANGED batchVars
    /\ UNCHANGED setupVars

\* A client of the registry awaits update_tool_metrics(name, success).
UpdateToolMetrics(name, success) ==
    /\ name \in DOMAIN tool_metadata => tool_metadata[name].execution_count < MaxCalls
    /\ tool_metadata' = UpdateToolMetricsResult(tool_metadata, name, success)
    /\ lastReg' = [op |-> "metrics", name |-> name, tool |-> "none",
                   raised |-> "none",
                   tools_before |-> registry_tools,
                   meta_before |-> tool_metadata]
    /\ UNCHANGED <<registry_tools, toolVars, chanVars, storeVars, engVars>>
    /\ UNCHANGED batchVars
    /\ UNCHANGED setupVars

NextRegistry ==
    \/ \E o \in ToolObjs : RegisterTool(o)
    \/ \E n \in ToolNames : UnregisterTool(n)
    \/ \E n \in ToolNames, success \in BOOLEAN : UpdateToolMetrics(n, success)

(***************************************************************************)
(* agents/messaging.py                                                     *)
(***************************************************************************)
\* The Agent objects.
Engines == {"e1", "e2"}

\* Tasks other than Engine runs that call start() and stop().
Tasks == {"t1", "t2"}

\* Agent names (Agent.name); the coordinator identity of base.py line 177.
AgentNames == {"alpha", "beta"}

Coordinator == "managing_agent"

Receivers == AgentNames \cup {Coordinator}

\* Callbacks other than Agent._handle_message: h1 returns, h2 raises an Exception.
Callbacks == {"h1", "h2"}

CallbackRaises(callback) == callback = "h2"

\* The receivers that publishers other than the Engine address.
PublisherReceivers == {"alpha", Coordinator}

MessageTypes == {"stop", "progress_update"}

\* AgentMessage (lines 13-24); content and timestamp are not read by the channel.
Message(id, sender, receiver, type) ==
    [id |-> id, sender |-> sender, receiver |-> receiver, message_type |-> type]

InitChannel ==
    /\ running = FALSE
    /\ lock = "free"
    /\ queue = <<>>
    /\ subscribers = EmptyMap
    /\ chan_pc = [t \in Tasks \cup Engines |-> "idle"]
    /\ next_id = 1
    /\ published = 0
    /\ accepted = <<>>
    /\ dispatched = <<>>
    /\ last_subscribed = [r \in Receivers |-> "none"]

\* subscribe that keeps an earlier handler of the same receiver.
SubscribeKeepFirst(subs, receiver, callback) ==
    IF receiver \in DOMAIN subs THEN subs ELSE MapPut(subs, receiver, callback)

\* subscribe (lines 71-74)
SubscribeResult(subs, receiver, callback) == MapPut(subs, receiver, callback)

\* An unsubscribe that removes nothing.
UnsubscribeResultKept(subs, receiver) == subs

\* unsubscribe (lines 76-80)
UnsubscribeResult(subs, receiver) ==
    IF receiver \in DOMAIN subs THEN MapDel(subs, receiver) ELSE subs

\* self._subscribers.get(message.receiver) (line 90)
Callback(subs, receiver) ==
    IF receiver \in DOMAIN subs THEN subs[receiver] ELSE "none"

\* A queue that hands out the newest message first.
QueueGetNewest(q) == [message |-> q[Len(q)], rest |-> SubSeq(q, 1, Len(q) - 1)]

\* asyncio.Queue.get on a non-empty queue (line 86): the oldest message.
QueueGet(q) == [message |-> Head(q), rest |-> Tail(q)]

\* `async with self._lock` is entered at once when the asyncio.Lock is free
\* and no earlier caller is still waiting for it; otherwise the caller waits.
LockAvailable ==
    /\ lock = "free"
    /\ \A t \in DOMAIN chan_pc : chan_pc[t] \notin {"start_wait", "stop_wait"}

\* start() without the check of lines 37-38.
StartLockedNoCheck(t) ==
    /\ running' = TRUE
    /\ lock' = t
    /\ chan_pc' = [chan_pc EXCEPT ![t] = "in_loop"]

\* The body of start() once the lock is held (lines 37-42): a no-op when the
\* channel runs; otherwise the caller marks it running and becomes the dispatch
\* loop, keeping the lock for as long as the loop lasts.
StartLocked(t) ==
    IF running
    THEN /\ chan_pc' = [chan_pc EXCEPT ![t] = "idle"]
         /\ UNCHANGED <<running, lock>>
    ELSE /\ running' = TRUE
         /\ lock' = t
         /\ chan_pc' = [chan_pc EXCEPT ![t] = "in_loop"]

\* The body of stop() once the lock is held (lines 47-60); stop() does not
\* suspend while it holds the lock.
StopLocked(t) ==
    /\ chan_pc' = [chan_pc EXCEPT ![t] = "idle"]
    /\ IF running
       THEN /\ running' = FALSE
            /\ queue' = <<>>
       ELSE UNCHANGED <<running, queue>>

\* Task t awaits start() (lines 34-42); it waits when the lock is taken.
Start(t) ==
    /\ chan_pc[t] = "idle"
    /\ IF LockAvailable
       THEN StartLocked(t)
       ELSE /\ chan_pc' = [chan_pc EXCEPT ![t] = "start_wait"]
            /\ UNCHANGED <<running, lock>>
    /\ UNCHANGED <<queue, subscribers, next_id, published, accepted, dispatched,
                   last_subscribed>>
    /\ UNCHANGED otherVars

\* A task waiting in start() gets the lock.
StartAcquire(t) ==
    /\ chan_pc[t] = "start_wait"
    /\ lock = "free"
    /\ StartLocked(t)
    /\ UNCHANGED <<queue, subscribers, next_id, published, accepted, dispatched,
                   last_subscribed>>
    /\ UNCHANGED otherVars

\* Task t awaits stop() (lines 44-60); it waits when the lock is taken.
Stop(t) ==
    /\ chan_pc[t] = "idle"
    /\ IF LockAvailable
       THEN StopLocked(t)
       ELSE /\ chan_pc' = [chan_pc EXCEPT ![t] = "stop_wait"]
            /\ UNCHANGED <<running, queue>>
    /\ UNCHANGED <<lock, subscribers, next_id, published, accepted, dispatched,
                   last_subscribed>>
    /\ UNCHANGED otherVars

\* A task waiting in stop() gets the lock.
StopAcquire(t) ==
    /\ chan_pc[t] = "stop_wait"
    /\ lock = "free"
    /\ StopLocked(t)
    /\ UNCHANGED <<lock, subscribers, next_id, published, accepted, dispatched,
                   last_subscribed>>
    /\ UNCHANGED otherVars

\* The task is cancelled at the await it is suspended in.  Inside the loop the
\* CancelledError is caught at line 106 and the loop breaks: start() returns,
\* the lock is released and _running stays as it is.  Waiting for the lock, the
\* CancelledError ends the call.
CancelTask(t) ==
    /\ chan_pc[t] # "idle"
    /\ lock' = IF chan_pc[t] = "in_loop" THEN "free" ELSE lock
    /\ chan_pc' = [chan_pc EXCEPT ![t] = "idle"]
    /\ UNCHANGED <<running, queue, subscribers, next_id, published, accepted,
                   dispatched, last_subscribed>>
    /\ UNCHANGED otherVars

\* send() without the check of lines 64-66.
SendResultAlways(q, message) == Append(q, message)

\* send() (lines 62-69): dropped when the channel is not running.
SendResult(q, message) == IF running THEN Append(q, message) ELSE q

\* A publisher other than the Engine constructs a message and awaits send().
Send(sender, receiver, type) ==
    /\ published < MaxMsgs
    /\ published' = published + 1
    /\ LET message == Message(next_id, sender, receiver, type)
       IN  /\ queue' = SendResult(queue, message)
           /\ accepted' = IF queue' # queue THEN Append(accepted, next_id) ELSE accepted
    /\ next_id' = next_id + 1
    /\ UNCHANGED <<running, lock, subscribers, chan_pc, dispatched, last_subscribed>>
    /\ UNCHANGED otherVars

\* subscribe(receiver, callback) with a callback other than an Agent's.
Subscribe(receiver, callback) ==
    /\ subscribers' = SubscribeResult(subscribers, receiver, callback)
    /\ last_subscribed' = [last_subscribed EXCEPT ![receiver] = callback]
    /\ UNCHANGED <<running, lock, queue, chan_pc, next_id, published, accepted,
                   dispatched>>
    /\ UNCHANGED otherVars

\* unsubscribe(receiver)
Unsubscribe(receiver) ==
    /\ subscribers' = UnsubscribeResult(subscribers, receiver)
    /\ last_subscribed' = [last_subscribed EXCEPT ![receiver] = "none"]
    /\ UNCHANGED <<running, lock, queue, chan_pc, next_id, published, accepted,
                   dispatched>>
    /\ UNCHANGED otherVars


\* A loop in which the exception of a handler ends _process_messages.
LoopAfterPropagates(raised) == IF raised THEN "idle" ELSE "in_loop"

\* Where the task of the loop is after the handler call of lines 91-97:
\* `except Exception` logs what the handler raised and the while goes on.
LoopAfter(raised) == "in_loop"

\* One round of the loop of _process_messages (lines 84-104) in task t, with a
\* callback that is not an Agent's: the oldest message is taken, the handler
\* registered for its receiver right now is awaited, an exception of the handler
\* is logged and swallowed, a message without handler is dropped.
DispatchCallback(t) ==
    /\ chan_pc[t] = "in_loop"
    /\ running
    /\ queue # <<>>
    /\ LET got == QueueGet(queue)
           callback == Callback(subscribers, got.message.receiver)
       IN  /\ callback \notin Engines
           /\ queue' = got.rest
           /\ dispatched' = Append(dispatched,
                                   [id |-> got.message.id, handler |-> callback,
                                    latest |-> last_subscribed[got.message.receiver],
                                    raised |-> CallbackRaises(callback)])
           /\ chan_pc' = [chan_pc EXCEPT ![t] = LoopAfter(CallbackRaises(callback))]
           /\ lock' = IF LoopAfter(CallbackRaises(callback)) = "in_loop"
                      THEN lock ELSE "free"
    /\ UNCHANGED <<running, subscribers, next_id, published, accepted,
                   last_subscribed>>
    /\ UNCHANGED otherVars

NextChannel ==
    \/ \E t \in Tasks : Start(t)
    \/ \E t \in Tasks : StartAcquire(t)
    \/ \E t \in Tasks : Stop(t)
    \/ \E t \in Tasks : StopAcquire(t)
    \/ \E t \in Tasks : CancelTask(t)
    \/ \E r \in PublisherReceivers : Send("publisher", r, "progress_update")
    \/ \E r \in PublisherReceivers, h \in Callbacks : Subscribe(r, h)
    \/ \E r \in PublisherReceivers : Unsubscribe(r)
    \/ \E t \in Tasks : DispatchCallback(t)

(***************************************************************************)
(* state/state_manager.py                                                  *)
(***************************************************************************)
Users == {"u1"}

\* datetime.now() of a clock that never returns the same reading twice.
Now == clock + 1

\* The AgentState initialize_state() creates (base.py lines 49-58), with the
\* reading of datetime.now() it was given.  agent_id and user_id are the key.
FreshRow(ts) ==
    [status |-> "initialized", current_step |-> "none", tools_state |-> EmptyMap,
     shared_data |-> EmptyMap, step_results |-> EmptyMap, last_updated |-> ts]

\* No row (get_state returns None); also `state = None` of base.py line 79.
NoRow ==
    [status |-> "none", current_step |-> "none", tools_state |-> EmptyMap,
     shared_data |-> EmptyMap, step_results |-> EmptyMap, last_updated |-> 0]

\* Python values a tool or a caller may put in shared_data, named by their
\* literals.  The values the Engine itself puts there are other strings.
PyValues ==
    {"'a'", "1", "[1, 2]", "(1, 2)", "{'1': 'a'}", "{1: 'a'}", "datetime(2024, 1, 1)"}

\* json.dumps raises TypeError for a value that is not a JSON type.
Serializable(v) == v # "datetime(2024, 1, 1)"

\* json.loads(json.dumps(v)): a tuple is written as an array and read as a
\* list, the keys of a dict are written and read as strings.
JsonValue(v) ==
    CASE v = "(1, 2)" -> "[1, 2]"
      [] v = "{1: 'a'}" -> "{'1': 'a'}"
      [] OTHER -> v

\* json.dumps / json.loads of shared_data (lines 135, 109).
JsonDumps(map) == [json |-> [k \in DOMAIN map |-> JsonValue(map[k])]]

JsonLoads(text) == text.json

\* json.dumps of tools_state and step_results (lines 134, 138, 108, 112); in
\* the model their values are dicts of strings, numbers and booleans with
\* string keys, which the text holds as they are.
JsonDumpsPlain(map) == [json |-> map]

\* datetime.isoformat / datetime.fromisoformat (lines 136, 110)
IsoFormat(ts) == [iso |-> ts]

FromIsoFormat(text) == text.iso

\* The column values update_state binds (lines 130-139).
EncodeRow(row) ==
    [current_step |-> row.current_step,
     tools_state |-> JsonDumpsPlain(row.tools_state),
     shared_data |-> JsonDumps(row.shared_data),
     last_updated |-> IsoFormat(row.last_updated),
     status |-> row.status,
     step_results |-> JsonDumpsPlain(row.step_results)]

\* The AgentState get_state builds from a table row (lines 104-113).
DecodeRow(r) ==
    [status |-> r.status, current_step |-> r.current_step,
     tools_state |-> JsonLoads(r.tools_state),
     shared_data |-> JsonLoads(r.shared_data),
     step_results |-> JsonLoads(r.step_results),
     last_updated |-> FromIsoFormat(r.last_updated)]

\* Whether update_state raises for the row: json.dumps fails (lines 134-138,
\* 142-144) and nothing is written.
UpdateRaises(row) == \E k \in DOMAIN row.shared_data : ~Serializable(row.shared_data[k])

\* get_state (lines 90-117)
GetState(table, key) == IF key \in DOMAIN table THEN DecodeRow(table[key]) ELSE NoRow

\* update_state (lines 119-144): INSERT OR REPLACE of the whole row.
UpdateState(table, key, row) == MapPut(table, key, EncodeRow(row))

\* A delete_state whose statement has no WHERE clause.
DeleteStateAll(table, key) == EmptyMap

\* delete_state (lines 146-157)
DeleteState(table, key) == MapDel(table, key)

\* A create_state that is a plain INSERT: nothing is written over a row.
CreateStateInsertOnly(table, key, row) ==
    IF key \in DOMAIN table THEN table ELSE UpdateState(table, key, row)

\* create_state (lines 84-88): update_state under the lock, an INSERT OR REPLACE.
CreateState(table, key, row) == UpdateState(table, key, row)

\* The keys direct callers of the store use.
StoreKeys == {<<a, u>> : a \in AgentNames, u \in Users}

\* The AgentStates direct callers write: a fresh one and one of a finished run
\* of one step, each with nothing or with one value in shared_data.
CallerRows ==
    {[status |-> "initialized", current_step |-> "none", tools_state |-> EmptyMap,
      shared_data |-> d, step_results |-> EmptyMap, last_updated |-> ts] :
        d \in {EmptyMap} \cup {MapPut(EmptyMap, "k", v) : v \in PyValues},
        ts \in 1..MaxStamp}
    \cup
    {[status |-> "completed", current_step |-> "s1",
      tools_state |-> MapPut(EmptyMap, "web_search", ToolState),
      shared_data |-> d,
      step_results |-> MapPut(EmptyMap, "s1", MapPut(EmptyMap, "web_search", OkResult("ok_state"))),
      last_updated |-> ts] :
        d \in {EmptyMap} \cup {MapPut(EmptyMap, "k", v) : v \in PyValues},
        ts \in 1..MaxStamp}

NoOp == [op |-> "none", key |-> <<"none", "none">>, row |-> NoRow, raised |-> FALSE,
         before |-> EmptyMap]

InitStore == store = EmptyMap /\ lastOp = NoOp

\* A caller awaits update_state(row) for the key of the row (lines 119-144).
PutState(key, row) ==
    /\ store' = IF UpdateRaises(row) THEN store ELSE UpdateState(store, key, row)
    /\ lastOp' = [op |-> "put", key |-> key, row |-> row, raised |-> UpdateRaises(row),
                  before |-> store]
    /\ UNCHANGED <<toolVars, regVars, chanVars, engVars>>
    /\ UNCHANGED batchVars
    /\ UNCHANGED setupVars

\* A caller awaits delete_state (lines 146-157).
DeleteRow(key) ==
    /\ store' = DeleteState(store, key)
    /\ lastOp' = [op |-> "delete", key |-> key, row |-> NoRow, raised |-> FALSE,
                  before |-> store]
    /\ UNCHANGED <<toolVars, regVars, chanVars, engVars>>
    /\ UNCHANGED batchVars
    /\ UNCHANGED setupVars

\* A caller awaits get_state (lines 90-117); row is what it returns.
GetRow(key) ==
    /\ lastOp' = [op |-> "get", key |-> key, row |-> GetState(store, key),
                  raised |-> FALSE, before |-> store]
    /\ UNCHANGED <<store, toolVars, regVars, chanVars, engVars>>
    /\ UNCHANGED batchVars
    /\ UNCHANGED setupVars

\* The AgentStates other writers leave under a key before initialize_state().
SeededRows ==
    {r \in CallerRows : r.shared_data \in {EmptyMap, MapPut(EmptyMap, "k", "'a'")}}

\* An Agent whose name and user_id are the key awaits initialize_state()
\* (base.py lines 47-59): create_state of a fresh AgentState.
InitializeRow(key) ==
    /\ clock < MaxStamp
    /\ clock' = Now
    /\ store' = CreateState(store, key, FreshRow(Now))
    /\ lastOp' = [op |-> "init", key |-> key, row |-> FreshRow(Now),
                  raised |-> UpdateRaises(FreshRow(Now)), before |-> store]
    /\ UNCHANGED <<toolVars, regVars, chanVars>>
    /\ UNCHANGED <<cfg, tool_kind, pc, agent_status, state_obj, step_idx, tool_idx,
                   step_results, executed, ended, exit_row, stop_seen, faulted, inits>>
    /\ UNCHANGED batchVars
    /\ UNCHANGED setupVars

NextInitialize ==
    \/ \E key \in StoreKeys : InitializeRow(key)
    \/ \E key \in StoreKeys, row \in SeededRows : PutState(key, row)
    \/ \E key \in StoreKeys : DeleteRow(key)

NextStore ==
    \/ \E key \in StoreKeys, row \in CallerRows : PutState(key, row)
    \/ \E key \in StoreKeys : DeleteRow(key)
    \/ \E key \in StoreKeys : GetRow(key)

\* Callers of two keys writing rows that json.dumps accepts, deleting and
\* reading in any order.
NextKeys ==
    \/ \E key \in StoreKeys, row \in SeededRows : PutState(key, row)
    \/ \E key \in StoreKeys : DeleteRow(key)
    \/ \E key \in StoreKeys : GetRow(key)

(***************************************************************************)
(* state/state_manager.py: the lazy setup (_get_db, _setup_database)       *)
(***************************************************************************)
\* The coroutines that call get_state, update_state or delete_state of one
\* StateManager.
DbCallers == {"d1", "d2", "d3"}

DbOps == {"get", "put", "delete"}

\* How _setup_database ends (lines 61-82): normally, with an exception before
\* the commit of line 78, or with one after it (closing the connection).
SetupOutcomes == {"ok", "raises", "raises_after_commit"}

NoDbOp == [op |-> "none", key |-> <<"none", "none">>]

InitSetup ==
    /\ setup_done = FALSE
    /\ store_lock = [holder |-> "none", waiters |-> <<>>]
    /\ schema = FALSE
    /\ db_pc = [c \in DbCallers |-> "idle"]
    /\ db_op = [c \in DbCallers |-> NoDbOp]
    /\ db_calls = 0
    /\ db_path = [c \in DbCallers |-> "none"]
    /\ setups = 0
    /\ row_ops = 0
    /\ op_without_setup = FALSE

\* asyncio.Lock.acquire does not suspend when the lock is free and nobody
\* waits for it; otherwise the caller queues up.
StoreLockFree == store_lock.holder = "none" /\ store_lock.waiters = <<>>

\* A _get_db that does not look at the flag again under the lock.
SetupNeededNoRecheck == TRUE

\* The second test of _setup_done, made under the lock (line 55).
SetupNeeded == ~setup_done

\* A caller enters get_state, update_state or delete_state and with it
\* _get_db (lines 50-56): the test of line 53, then the lock.
GetDb(c, op, key) ==
    /\ db_pc[c] = "idle"
    /\ db_calls < MaxDbCalls
    /\ db_calls' = db_calls + 1
    /\ db_op' = [db_op EXCEPT ![c] = [op |-> op, key |-> key]]
    /\ IF setup_done
       THEN /\ db_pc' = [db_pc EXCEPT ![c] = "connect"]
            /\ db_path' = [db_path EXCEPT ![c] = "flag_set"]
            /\ UNCHANGED store_lock
       ELSE IF StoreLockFree
       THEN /\ store_lock' = [store_lock EXCEPT !.holder = c]
            /\ db_pc' = [db_pc EXCEPT ![c] = "setup"]
            /\ db_path' = [db_path EXCEPT ![c] = "setup"]
       ELSE /\ store_lock' = [store_lock EXCEPT !.waiters = Append(@, c)]
            /\ db_pc' = [db_pc EXCEPT ![c] = "wait_lock"]
            /\ db_path' = [db_path EXCEPT ![c] = "none"]
    /\ UNCHANGED <<setup_done, schema, setups, row_ops, op_without_setup>>
    /\ UNCHANGED <<toolVars, regVars, chanVars, storeVars, engVars, batchVars>>

\* The first waiter gets the lock its holder has released (line 54) and
\* tests the flag again (line 55); with the flag set it leaves the lock at
\* once and goes on to connect (line 58).
GetDbLocked(c) ==
    /\ db_pc[c] = "wait_lock"
    /\ store_lock.holder = "none"
    /\ store_lock.waiters # <<>>
    /\ Head(store_lock.waiters) = c
    /\ IF SetupNeeded
       THEN /\ store_lock' = [holder |-> c, waiters |-> Tail(store_lock.waiters)]
            /\ db_pc' = [db_pc EXCEPT ![c] = "setup"]
            /\ db_path' = [db_path EXCEPT ![c] = "setup"]
       ELSE /\ store_lock' = [holder |-> "none", waiters |-> Tail(store_lock.waiters)]
            /\ db_pc' = [db_pc EXCEPT ![c] = "connect"]
            /\ db_path' = [db_path EXCEPT ![c] = "rechecked"]
    /\ UNCHANGED <<setup_done, schema, db_op, db_calls, setups, row_ops, op_without_setup>>
    /\ UNCHANGED <<toolVars, regVars, chanVars, storeVars, engVars, batchVars>>

\* _setup_database ends (lines 61-82).  The flag is set after the connection
\* is closed (line 79); an exception leaves it unset, releases the lock
\* (line 54) and ends the caller's operation (lines 115-117, 142-144, 155-157).
SetupDatabase(c, outcome) ==
    /\ db_pc[c] = "setup"
    /\ store_lock' = [store_lock EXCEPT !.holder = "none"]
    /\ schema' = (schema \/ outcome \in {"ok", "raises_after_commit"})
    /\ IF outcome = "ok"
       THEN /\ setup_done' = TRUE
            /\ setups' = setups + 1
            /\ db_pc' = [db_pc EXCEPT ![c] = "connect"]
            /\ UNCHANGED <<db_op, db_path>>
       ELSE /\ db_pc' = [db_pc EXCEPT ![c] = "idle"]
            /\ db_op' = [db_op EXCEPT ![c] = NoDbOp]
            /\ db_path' = [db_path EXCEPT ![c] = "raised"]
            /\ UNCHANGED <<setup_done, setups>>
    /\ UNCHANGED <<db_calls, row_ops, op_without_setup>>
    /\ UNCHANGED <<toolVars, regVars, chanVars, storeVars, engVars, batchVars>>

\* The row a caller of update_state writes here.
SetupRow == FreshRow(1)

\* The statement of the caller's operation is executed on the connection of
\* line 58 and committed (lines 94-101, 123-141, 150-154); on a database
\* without the table it raises and nothing changes.
RowOperation(c) ==
    /\ db_pc[c] = "connect"
    /\ db_pc' = [db_pc EXCEPT ![c] = "idle"]
    /\ db_op' = [db_op EXCEPT ![c] = NoDbOp]
    /\ row_ops' = row_ops + 1
    /\ op_without_setup' = (op_without_setup \/ ~setup_done)
    /\ store' = IF ~schema THEN store
                ELSE CASE db_op[c].op = "put" -> UpdateState(store, db_op[c].key, SetupRow)
                       [] db_op[c].op = "delete" -> DeleteState(store, db_op[c].key)
                       [] OTHER -> store
    /\ lastOp' = [op |-> db_op[c].op, key |-> db_op[c].key,
                  row |-> IF db_op[c].op = "get" /\ schema
                          THEN GetState(store, db_op[c].key)
                          ELSE IF db_op[c].op = "put" THEN SetupRow ELSE NoRow,
                  raised |-> ~schema, before |-> store]
    /\ UNCHANGED <<setup_done, store_lock, schema, db_calls, db_path, setups>>
    /\ UNCHANGED <<toolVars, regVars, chanVars, engVars, batchVars>>

\* A caller that waits for the lock is cancelled: it leaves the queue of the
\* lock and its operation ends.
CancelWaiting(c) ==
    /\ db_pc[c] = "wait_lock"
    /\ store_lock' = [store_lock EXCEPT
                        !.waiters = SelectSeq(@, LAMBDA w : w # c)]
    /\ db_pc' = [db_pc EXCEPT ![c] = "idle"]
    /\ db_op' = [db_op EXCEPT ![c] = NoDbOp]
    /\ db_path' = [db_path EXCEPT ![c] = "cancelled"]
    /\ UNCHANGED <<setup_done, schema, db_calls, setups, row_ops, op_without_setup>>
    /\ UNCHANGED <<toolVars, regVars, chanVars, storeVars, engVars, batchVars>>

NextSetup ==
    \/ \E c \in DbCallers, op \in DbOps, key \in StoreKeys : GetDb(c, op, key)
    \/ \E c \in DbCallers : GetDbLocked(c)
    \/ \E c \in DbCallers, outcome \in SetupOutcomes : SetupDatabase(c, outcome)
    \/ \E c \in DbCallers : RowOperation(c)
    \/ \E c \in DbCallers : CancelWaiting(c)

(***************************************************************************)
(* agents/generator.py, agent_executor.py, main.py: the batch runners      *)
(* execute() itself is the subject of Spec; here it is its caller's view:  *)
(* how the call ends and the status it has persisted by then.              *)
(***************************************************************************)
\* The fields _validate_agent_data requires (generator.py lines 178-181).
RequiredFields ==
    {"name", "description", "tools", "initial_step", "steps", "final_step",
     "exception_handling"}

\* self.available_tools of the generator: tool_registry.list_tools()
\* (generator.py lines 44-47, registry.py lines 58-60).
AvailableTools == ToolNames

\* Tool lists of the entries of a response; "shell" is not a known tool name.
BatchToolLists == {<<"web_search">>, <<"web_search", "shell">>}

\* The entries a response may hold: with every required field or without
\* final_step.
AgentEntries ==
    {[name |-> n, fields |-> f, tools |-> t] :
        n \in AgentNames,
        f \in {RequiredFields, RequiredFields \ {"final_step"}},
        t \in BatchToolLists}

\* The agents arrays of the responses of the model.
Batches == UNION {[1..k -> AgentEntries] : k \in 0..MaxBatch}

\* _validate_agent_data (lines 174-207): TRUE when it does not raise.
ValidAgentData(agent_data) ==
    LET missing_fields == {f \in RequiredFields : f \notin agent_data.fields}
        invalid_tools == {i \in 1..Len(agent_data.tools) :
                             agent_data.tools[i] \notin AvailableTools}
    IN  missing_fields = {} /\ invalid_tools = {}

\* A validation that looks at the first entry only.
ValidateResponseFirstOnly(agents_data) ==
    Len(agents_data) >= 1 => ValidAgentData(agents_data[1])

\* _validate_response (lines 155-172) on a response with an agents array: every
\* entry is validated before generate_rules goes on to _create_agents.
ValidateResponse(agents_data) ==
    \A idx \in 1..Len(agents_data) : ValidAgentData(agents_data[idx])

\* How an awaited execute() ends for its caller: it returns, it raises, or it
\* is still running when a wait_for around it reaches its timeout (the one of
\* execute_agent, line 30, or the one of process_agent, line 72) and is
\* cancelled.  "overrun": the cancellation reached execute() inside the loop of
\* _process_messages, which catches it (messaging.py lines 106-107), execute()
\* went on with its steps while the wait_fors waited for it to end, and it was
\* still running when the wait_for of run_async (event_loop.py lines 28-30)
\* reached its timeout and cancelled process_agent.
RunOutcomes == {"returns", "raises", "timeout_inner", "timeout_outer", "overrun"}

\* The status execute() has persisted when it ends that way.
PersistedStatus(outcome) ==
    IF outcome = "returns" THEN "completed"
    ELSE IF outcome = "raises" THEN "failed"
    ELSE "running"

\* An execute_agent that shows completed however execute() has ended and
\* raises nothing.
ExecuteAgentResultAlwaysCompleted(outcome) == [status |-> "completed", raised |-> "none"]

\* execute_agent (agent_executor.py lines 26-49): the status it shows and the
\* exception it re-raises.  Cancelled by the outer wait_for it shows nothing.
ExecuteAgentResult(outcome) ==
    IF outcome = "returns" THEN [status |-> "completed", raised |-> "none"]
    ELSE IF outcome = "timeout_inner" THEN [status |-> "timeout", raised |-> "TimeoutError"]
    ELSE IF outcome = "timeout_outer" THEN [status |-> "none", raised |-> "TimeoutError"]
    ELSE IF outcome = "overrun" THEN [status |-> "none", raised |-> "CancelledError"]
    ELSE [status |-> "failed", raised |-> "Exception"]

\* process_agent (lines 71-81) after execute_agent has ended with r: the status
\* it shows and what it raises.  A CancelledError is not an Exception: no
\* handler of process_agent runs.
ProcessAgentResult(r) ==
    IF r.raised = "TimeoutError" THEN [status |-> "timeout", raised |-> "none"]
    ELSE IF r.raised = "Exception" THEN [status |-> "failed", raised |-> "none"]
    ELSE r

\* show_agent_status (state_management.py lines 52-67); status "none": no call.
ShowAgentStatus(snapshot, agent_name, status) ==
    IF status = "none" THEN snapshot ELSE MapPut(snapshot, agent_name, status)

BatchKey(i) == <<batch[i].name, "u1">>

InitBatch ==
    /\ batch = <<>>
    /\ batch_pc = "idle"
    /\ batch_idx = 0
    /\ constructed = <<>>
    /\ ran = <<>>
    /\ outcomes = <<>>
    /\ execution_status = EmptyMap

\* generate_rules (generator.py lines 88-98) receives a response with the
\* agents array b: _validate_response, then _create_agents up to its first
\* await (lines 215-232).
GenerateRules(b) ==
    /\ batch_pc = "idle"
    /\ batch' = b
    /\ IF ~ValidateResponse(b)
       THEN batch_pc' = "rejected" /\ UNCHANGED <<batch_idx, constructed>>
       ELSE IF Len(b) = 0
       THEN batch_pc' = "generated" /\ UNCHANGED <<batch_idx, constructed>>
       ELSE /\ batch_pc' = "creating"
            /\ batch_idx' = 1
            /\ constructed' = Append(constructed, b[1].name)
    /\ UNCHANGED <<ran, outcomes, execution_status>>
    /\ UNCHANGED <<toolVars, regVars, chanVars, storeVars, engVars>>
    /\ UNCHANGED setupVars

\* The initialize_state() of _create_agents (line 234) has written; the loop
\* constructs the next Agent or generate_rules returns the rules.
AgentCreated ==
    /\ batch_pc = "creating"
    /\ store' = CreateState(store, BatchKey(batch_idx), FreshRow(Now))
    /\ clock' = Now
    /\ IF batch_idx < Len(batch)
       THEN /\ batch_idx' = batch_idx + 1
            /\ constructed' = Append(constructed, batch[batch_idx + 1].name)
            /\ UNCHANGED batch_pc
       ELSE /\ batch_pc' = "generated"
            /\ UNCHANGED <<batch_idx, constructed>>
    /\ UNCHANGED <<batch, ran, outcomes, execution_status, lastOp>>
    /\ UNCHANGED <<toolVars, regVars, chanVars>>
    /\ UNCHANGED setupVars
    /\ UNCHANGED <<cfg, tool_kind, pc, agent_status, state_obj, step_idx, tool_idx,
                   step_results, executed, ended, exit_row, stop_seen, faulted, inits>>

\* The batch runner moves to entry i of the batch: it constructs the Agent and
\* awaits what `first` names, or it is done.
BatchAdvance(i, first, done) ==
    IF i <= Len(batch)
    THEN /\ batch_pc' = first
         /\ batch_idx' = i
         /\ constructed' = Append(constructed, batch[i].name)
    ELSE /\ batch_pc' = done
         /\ UNCHANGED <<batch_idx, constructed>>

\* The loop of main.py (lines 78-97) starts on the rules: process_agent of the
\* first entry up to its initialize_state() (agent_executor.py lines 56-69).
ProcessBatch ==
    /\ batch_pc = "generated"
    /\ BatchAdvance(1, "p_init", "processed")
    /\ UNCHANGED <<batch, ran, outcomes, execution_status>>
    /\ UNCHANGED <<toolVars, regVars, chanVars, storeVars, engVars>>
    /\ UNCHANGED setupVars

\* initialize_state() of process_agent has written (line 69): "Starting" is
\* shown and execute_agent is awaited under wait_for (lines 70-75).
ProcessInitialized ==
    /\ batch_pc = "p_init"
    /\ store' = CreateState(store, BatchKey(batch_idx), FreshRow(Now))
    /\ clock' = Now
    /\ execution_status' =
          ShowAgentStatus(execution_status, batch[batch_idx].name, "Starting")
    /\ ran' = Append(ran, batch[batch_idx].name)
    /\ batch_pc' = "p_exec"
    /\ UNCHANGED <<batch, batch_idx, constructed, outcomes, lastOp>>
    /\ UNCHANGED <<toolVars, regVars, chanVars>>
    /\ UNCHANGED setupVars
    /\ UNCHANGED <<cfg, tool_kind, pc, agent_status, state_obj, step_idx, tool_idx,
                   step_results, executed, ended, exit_row, stop_seen, faulted, inits>>

\* execute() of the entry in progress has ended for process_agent: the
\* handlers of execute_agent and process_agent, then the loop of main.py goes
\* on with the next entry (its except clauses continue, lines 91-96, also
\* after the TimeoutError run_async raises at its timeout).
ProcessEnds(outcome) ==
    /\ batch_pc = "p_exec"
    /\ LET r == ProcessAgentResult(ExecuteAgentResult(outcome))
       IN  /\ execution_status' =
                 ShowAgentStatus(execution_status, batch[batch_idx].name, r.status)
           /\ outcomes' = Append(outcomes, [outcome |-> outcome, raised |-> r.raised])
    /\ store' = UpdateState(store, BatchKey(batch_idx),
                            [FreshRow(Now) EXCEPT !.status = PersistedStatus(outcome)])
    /\ clock' = Now
    /\ BatchAdvance(batch_idx + 1, "p_init", "processed")
    /\ UNCHANGED <<batch, ran, lastOp>>
    /\ UNCHANGED <<toolVars, regVars, chanVars>>
    /\ UNCHANGED setupVars
    /\ UNCHANGED <<cfg, tool_kind, pc, agent_status, state_obj, step_idx, tool_idx,
                   step_results, executed, ended, exit_row, stop_seen, faulted, inits>>

\* execute_agents (generator.py lines 247-273) starts on the rules: the first
\* Agent is constructed and its execute() awaited.
ExecuteAgents ==
    /\ batch_pc = "generated"
    /\ BatchAdvance(1, "x_exec", "executed")
    /\ ran' = IF Len(batch) >= 1 THEN Append(ran, batch[1].name) ELSE ran
    /\ UNCHANGED <<batch, outcomes, execution_status>>
    /\ UNCHANGED <<toolVars, regVars, chanVars, storeVars, engVars>>
    /\ UNCHANGED setupVars

\* The execute() execute_agents awaits (line 276) has ended: when it returned
\* the final state is read and the loop goes on (lines 278-299); when it raised
\* the handler of lines 303-306 re-raises and execute_agents ends.  No wait_for
\* bounds this execute().
ExecuteAgentsEnds(outcome) ==
    /\ batch_pc = "x_exec"
    /\ outcome \in {"returns", "raises"}
    /\ outcomes' = Append(outcomes, [outcome |-> outcome,
                                     raised |-> IF outcome = "raises" THEN "Exception"
                                                ELSE "none"])
    /\ store' = UpdateState(store, BatchKey(batch_idx),
                            [FreshRow(Now) EXCEPT !.status = PersistedStatus(outcome)])
    /\ clock' = Now
    /\ IF outcome = "raises"
       THEN /\ batch_pc' = "raised"
            /\ UNCHANGED <<batch_idx, constructed, ran>>
       ELSE /\ BatchAdvance(batch_idx + 1, "x_exec", "executed")
            /\ ran' = IF batch_idx < Len(batch)
                      THEN Append(ran, batch[batch_idx + 1].name) ELSE ran
    /\ UNCHANGED <<batch, execution_status, lastOp>>
    /\ UNCHANGED <<toolVars, regVars, chanVars>>
    /\ UNCHANGED setupVars
    /\ UNCHANGED <<cfg, tool_kind, pc, agent_status, state_obj, step_idx, tool_idx,
                   step_results, executed, ended, exit_row, stop_seen, faulted, inits>>

NextBatch ==
    \/ \E b \in Batches : GenerateRules(b)
    \/ AgentCreated
    \/ ProcessBatch
    \/ ProcessInitialized
    \/ \E outcome \in RunOutcomes : ProcessEnds(outcome)
    \/ ExecuteAgents
    \/ \E outcome \in RunOutcomes : ExecuteAgentsEnds(outcome)

(***************************************************************************)
(* agents/base.py                                                          *)
(***************************************************************************)
StepNames == {"s1", "s2", "s3"}

\* The tool list of every AgentSpec of the model.
SpecTools == <<"web_search", "db_tool">>

\* The tool objects the registry may hold when an Engine runs.
RegisteredObj(name) == IF name = "db_tool" THEN "o3" ELSE "o1"

\* What execute() of a tool does: a good tool returns a dict with its state, a
\* bad tool raises.
KindOutcome(kind) == IF kind = "good" THEN "ok_state" ELSE "raise"

\* str(e) of an exception of the state store.
StoreError == "store error"

Key(e) == <<cfg[e].name, cfg[e].user_id>>

\* A step sequence without the final step.
StepsWithoutFinal(e) == <<cfg[e].initial_step>> \o cfg[e].steps

\* line 91
Steps(e) == <<cfg[e].initial_step>> \o cfg[e].steps \o <<cfg[e].final_step>>

\* The fields _update_state_status sets before it writes (lines 69-73).
UpdateStateStatus(obj, status, current_step, error) ==
    [obj EXCEPT
        !.status = status,
        !.current_step = IF current_step # "none" THEN current_step ELSE @,
        !.shared_data = IF error # "none" THEN MapPut(@, "last_error", error) ELSE @,
        !.last_updated = Now]

\* A loop that ends at the first tool of the list that get_tool does not find.
NextRegisteredNoSkip(e, j) ==
    IF j <= Len(cfg[e].tools) /\ GetTool(cfg[e].tools[j]) # "none" THEN j ELSE 0

\* The last index from j on of a tool of the list that get_tool finds: a loop
\* that does not go through the list in its order.
NextRegisteredLast(e, j) ==
    LET found == {k \in j..Len(cfg[e].tools) : GetTool(cfg[e].tools[k]) # "none"}
    IN  IF found = {} THEN 0 ELSE CHOOSE k \in found : \A m \in found : k >= m

\* The first index from j on of a tool of the list that get_tool finds (lines
\* 127-131 skip the others); 0 when there is none.
NextRegistered(e, j) ==
    LET found == {k \in j..Len(cfg[e].tools) : GetTool(cfg[e].tools[k]) # "none"}
    IN  IF found = {} THEN 0 ELSE CHOOSE k \in found : \A m \in found : k <= m

NoStop == [seen |-> FALSE, idx |-> 0, recorded |-> {}]

\* An Engine that has not been constructed.
AbsentConfig ==
    [name |-> "beta", user_id |-> "u1", tools |-> SpecTools, initial_step |-> "s1",
     steps |-> <<>>, final_step |-> "s2", continue_on_error |-> FALSE]

InitEngine ==
    /\ cfg = [e \in Engines |-> AbsentConfig]
    /\ tool_kind = [o \in ToolObjs |-> "good"]
    /\ pc = [e \in Engines |-> "absent"]
    /\ agent_status = [e \in Engines |-> "initialized"]
    /\ state_obj = [e \in Engines |-> NoRow]
    /\ step_idx = [e \in Engines |-> 0]
    /\ tool_idx = [e \in Engines |-> 0]
    /\ step_results = [e \in Engines |-> EmptyMap]
    /\ executed = [e \in Engines |-> FALSE]
    /\ ended = [e \in Engines |-> "none"]
    /\ exit_row = [e \in Engines |-> NoRow]
    /\ stop_seen = [e \in Engines |-> NoStop]
    /\ faulted = [e \in Engines |-> FALSE]
    /\ clock = 0
    /\ inits = 0

\* Where execute() goes next: the await it suspends in (pc) with the values of
\* its locals, or the way it ends (exit) after the finally block.
Cont(label, obj, status, sidx, tidx, results, exit) ==
    [pc |-> label, obj |-> obj, status |-> status, step_idx |-> sidx,
     tool_idx |-> tidx, results |-> results, exit |-> exit]

\* The top of the loop with a stop check that writes stopped and does not return.
BoundaryContNoReturn(e, obj, idx) ==
    IF idx > Len(Steps(e))
    THEN Cont("w_completed", UpdateStateStatus(obj, "completed", "none", "none"),
              "completed", idx, 0, EmptyMap, "none")
    ELSE Cont("w_step",
              UpdateStateStatus(obj, IF agent_status[e] = "stopped" THEN "stopped"
                                     ELSE "running", Steps(e)[idx], "none"),
              agent_status[e], idx, 0, EmptyMap, "none")

\* The top of the for loop of execute() at step idx (lines 92-99, 104-106) up to
\* the write it awaits: the stop flag is looked at here and nowhere else.
BoundaryCont(e, obj, idx) ==
    IF idx > Len(Steps(e))
    THEN Cont("w_completed", UpdateStateStatus(obj, "completed", "none", "none"),
              "completed", idx, 0, EmptyMap, "none")
    ELSE IF agent_status[e] = "stopped"
    THEN Cont("w_stopped", UpdateStateStatus(obj, "stopped", "none", "none"),
              "stopped", idx, 0, EmptyMap, "none")
    ELSE Cont("w_step", UpdateStateStatus(obj, "running", Steps(e)[idx], "none"),
              agent_status[e], idx, 0, EmptyMap, "none")

\* A loop that looks at the stop flag before every tool and leaves the rest of
\* the tools out once it is set.
ToolsContStopsEarly(e, obj, j, results) ==
    LET k == IF agent_status[e] = "stopped" THEN 0 ELSE NextRegistered(e, j)
    IN  IF k # 0
        THEN Cont("tool", obj, agent_status[e], step_idx[e], k, results, "none")
        ELSE Cont("w_record",
                  [obj EXCEPT !.step_results = MapPut(@, Steps(e)[step_idx[e]], results)],
                  agent_status[e], step_idx[e], 0, results, "none")

\* A loop that records a step by replacing step_results with the one entry.
ToolsContReplaces(e, obj, j, results) ==
    LET k == NextRegistered(e, j)
    IN  IF k # 0
        THEN Cont("tool", obj, agent_status[e], step_idx[e], k, results, "none")
        ELSE Cont("w_record",
                  [obj EXCEPT !.step_results =
                                 MapPut(EmptyMap, Steps(e)[step_idx[e]], results)],
                  agent_status[e], step_idx[e], 0, results, "none")

\* The for loop of _execute_step from list index j on (lines 127-161): the next
\* registered tool is awaited; after the last one the step is recorded and the
\* write of line 161 awaited.
ToolsCont(e, obj, j, results) ==
    LET k == NextRegistered(e, j)
    IN  IF k # 0
        THEN Cont("tool", obj, agent_status[e], step_idx[e], k, results, "none")
        ELSE Cont("w_record",
                  [obj EXCEPT !.step_results = MapPut(@, Steps(e)[step_idx[e]], results)],
                  agent_status[e], step_idx[e], 0, results, "none")

\* The except block of execute() (lines 109-114) with `state` set, up to the
\* write it awaits.
FailedCont(e, obj, error) ==
    Cont("w_failed", UpdateStateStatus(obj, "failed", "none", error), "failed",
         step_idx[e], 0, EmptyMap, "none")

\* execute() ends: the finally block unsubscribes (lines 115-117).
ExitCont(e, obj, status, how) == Cont("idle", obj, status, step_idx[e], 0, EmptyMap, how)

\* {"error": str(e)} of line 155.
ExceptionEntry(msg) ==
    [mapping |-> TRUE, status |-> "none", error |-> msg, state |-> NoState,
     metadata |-> FALSE]

\* The Engine moves on as c says; store' is what this action has written.
Apply(e, c) ==
    /\ pc' = [pc EXCEPT ![e] = c.pc]
    /\ state_obj' = [state_obj EXCEPT ![e] = c.obj]
    /\ agent_status' = [agent_status EXCEPT ![e] = c.status]
    /\ step_idx' = [step_idx EXCEPT ![e] = c.step_idx]
    /\ tool_idx' = [tool_idx EXCEPT ![e] = c.tool_idx]
    /\ step_results' = [step_results EXCEPT ![e] = c.results]
    /\ ended' = [ended EXCEPT ![e] = c.exit]
    /\ clock' = IF c.obj.last_updated > clock THEN c.obj.last_updated ELSE clock
    /\ UNCHANGED <<inits, lastOp>>
    /\ exit_row' = IF c.exit # "none"
                   THEN [exit_row EXCEPT ![e] = GetState(store', Key(e))]
                   ELSE exit_row
    /\ subscribers' = IF c.exit # "none"
                      THEN UnsubscribeResult(subscribers, cfg[e].name)
                      ELSE subscribers
    /\ last_subscribed' = IF c.exit # "none"
                          THEN [last_subscribed EXCEPT ![cfg[e].name] = "none"]
                          ELSE last_subscribed

\* A caller awaits initialize_state() while the Agent is not executing (as
\* process_agent does before execute()): lines 47-59.
InitializeState(e) ==
    /\ pc[e] = "idle"
    /\ inits < MaxInits
    /\ inits' = inits + 1
    /\ store' = CreateState(store, Key(e), FreshRow(Now))
    /\ clock' = Now
    /\ UNCHANGED <<toolVars, regVars, chanVars, lastOp>>
    /\ UNCHANGED <<cfg, tool_kind, pc, agent_status, state_obj, step_idx, tool_idx,
                   step_results, executed, ended, exit_row, stop_seen, faulted>>
    /\ UNCHANGED batchVars
    /\ UNCHANGED setupVars

\* A caller awaits execute(): lines 79-82 up to the write of initialize_state.
\* The callers of the repository (process_agent, execute_agents) await it once
\* per Agent object.
ExecuteStart(e) ==
    /\ pc[e] = "idle"
    /\ ~executed[e]
    /\ executed' = [executed EXCEPT ![e] = TRUE]
    /\ stop_seen' = [stop_seen EXCEPT ![e] = NoStop]
    /\ UNCHANGED store
    /\ Apply(e, Cont("w_init", FreshRow(Now), agent_status[e], 0, 0, EmptyMap, "none"))
    /\ UNCHANGED <<toolVars, regVars, cfg, tool_kind, faulted>>
    /\ UNCHANGED <<running, lock, queue, chan_pc, next_id, published, accepted,
                   dispatched>>
    /\ UNCHANGED batchVars
    /\ UNCHANGED setupVars

\* A caller awaits execute() again on an Agent object whose earlier execute()
\* has ended: lines 79-82 as before; nothing subscribes the Agent again
\* (subscribe is called in __init__ only, line 45).
ExecuteAgain(e) ==
    /\ pc[e] = "idle"
    /\ executed[e]
    /\ ended[e] # "none"
    /\ clock < MaxRerunClock
    /\ stop_seen' = [stop_seen EXCEPT ![e] = NoStop]
    /\ UNCHANGED store
    /\ Apply(e, Cont("w_init", FreshRow(Now), agent_status[e], 0, 0, EmptyMap, "none"))
    /\ UNCHANGED <<toolVars, regVars, cfg, tool_kind, executed, faulted>>
    /\ UNCHANGED <<running, lock, queue, chan_pc, next_id, published, accepted,
                   dispatched>>
    /\ UNCHANGED batchVars
    /\ UNCHANGED setupVars

\* The row of initialize_state is written; lines 83-84 up to the write of
\* status running.
InitWritten(e) ==
    /\ pc[e] = "w_init"
    /\ store' = UpdateState(store, Key(e), state_obj[e])
    /\ Apply(e, Cont("w_running", UpdateStateStatus(state_obj[e], "running", "none", "none"),
                     "running", 0, 0, EmptyMap, "none"))
    /\ UNCHANGED <<toolVars, regVars, cfg, tool_kind, executed, stop_seen, faulted>>
    /\ UNCHANGED <<running, lock, queue, chan_pc, next_id, published, accepted,
                   dispatched>>
    /\ UNCHANGED batchVars
    /\ UNCHANGED setupVars

\* Status running is written; lines 87-88: on a channel that is not running the
\* Engine awaits start() and becomes its dispatch loop; otherwise the first step.
RunningWritten(e) ==
    /\ pc[e] = "w_running"
    /\ store' = UpdateState(store, Key(e), state_obj[e])
    /\ IF ~running
       THEN /\ IF LockAvailable
               THEN StartLocked(e)
               ELSE /\ chan_pc' = [chan_pc EXCEPT ![e] = "start_wait"]
                    /\ UNCHANGED <<running, lock>>
            /\ Apply(e, Cont("starting", state_obj[e], agent_status[e], 0, 0,
                             EmptyMap, "none"))
       ELSE /\ Apply(e, BoundaryCont(e, state_obj[e], 1))
            /\ UNCHANGED <<running, lock, chan_pc>>
    /\ UNCHANGED <<toolVars, regVars, cfg, tool_kind, executed, stop_seen, faulted>>
    /\ UNCHANGED <<queue, next_id, published, accepted, dispatched>>
    /\ UNCHANGED batchVars
    /\ UNCHANGED setupVars

\* The write of line 123 is done; the tools of the step follow.
StepWritten(e) ==
    /\ pc[e] = "w_step"
    /\ store' = UpdateState(store, Key(e), state_obj[e])
    /\ Apply(e, ToolsCont(e, state_obj[e], 1, EmptyMap))
    /\ UNCHANGED <<toolVars, regVars, cfg, tool_kind, executed, stop_seen, faulted>>
    /\ UNCHANGED <<running, lock, queue, chan_pc, next_id, published, accepted,
                   dispatched>>
    /\ UNCHANGED batchVars
    /\ UNCHANGED setupVars

\* A loop body that looks at the status of the result and treats an error
\* result as lines 152-157 treat an exception.
ToolOutcomeChecksStatus(e, name, r, obj, results) ==
    IF r.raised \/ r.result.status = "error"
    THEN IF cfg[e].continue_on_error
         THEN [raise |-> FALSE, obj |-> obj,
               results |-> MapPut(results, name, ExceptionEntry("tool exception"))]
         ELSE [raise |-> TRUE, obj |-> obj, results |-> results]
    ELSE [raise |-> FALSE, obj |-> obj, results |-> MapPut(results, name, r.result)]

\* What lines 145-157 make of the value safe_execute came back with (r), for the
\* tool called name: the entry of step_results, the tool's state, or the
\* exception that goes on to execute() when continue_on_error is off.
ToolOutcome(e, name, r, obj, results) ==
    IF r.raised
    THEN IF cfg[e].continue_on_error
         THEN [raise |-> FALSE, obj |-> obj,
               results |-> MapPut(results, name, ExceptionEntry("tool exception"))]
         ELSE [raise |-> TRUE, obj |-> obj, results |-> results]
    ELSE [raise |-> FALSE,
          obj |-> IF r.result.state.present
                  THEN [obj EXCEPT !.tools_state = MapPut(@, name, r.result.state)]
                  ELSE obj,
          results |-> MapPut(results, name, r.result)]

\* safe_execute of the tool at tool_idx comes back (lines 145-150); the loop
\* goes on with the next tool.
ToolReturns(e) ==
    /\ pc[e] = "tool"
    /\ LET name == cfg[e].tools[tool_idx[e]]
           o == GetTool(name)
           r == SafeExecute(EngineParams, KindOutcome(tool_kind[o]),
                            execution_count[o], error_count[o])
           t == ToolOutcome(e, name, r, state_obj[e], step_results[e])
       IN  /\ execution_count' = [execution_count EXCEPT ![o] = r.execution_count]
           /\ error_count' = [error_count EXCEPT ![o] = r.error_count]
           /\ invocations' = [invocations EXCEPT ![name] = @ + 1]
           /\ calls' = Append(calls, [step |-> Steps(e)[step_idx[e]], tool |-> name])
           /\ UNCHANGED store
           /\ IF t.raise
              THEN Apply(e, FailedCont(e, t.obj, "tool exception"))
              ELSE Apply(e, ToolsCont(e, t.obj, tool_idx[e] + 1, t.results))
    /\ UNCHANGED <<lastCall, regVars, cfg, tool_kind, executed, stop_seen, faulted>>
    /\ UNCHANGED <<running, lock, queue, chan_pc, next_id, published, accepted,
                   dispatched>>
    /\ UNCHANGED batchVars
    /\ UNCHANGED setupVars

\* A progress message addressed to the Agent itself.
ProgressMessageToSelf(e) == Message(next_id, cfg[e].name, cfg[e].name, "progress_update")

\* _send_progress_message (lines 172-186): nothing when the channel is not running.
ProgressMessage(e) == Message(next_id, cfg[e].name, Coordinator, "progress_update")

\* The write of line 161 is done: the progress message is sent (lines 163-164),
\* line 101, then the top of the loop for the next step.
RecordWritten(e) ==
    /\ pc[e] = "w_record"
    /\ store' = UpdateState(store, Key(e), state_obj[e])
    /\ IF running
       THEN /\ queue' = SendResult(queue, ProgressMessage(e))
            /\ accepted' = Append(accepted, next_id)
            /\ next_id' = next_id + 1
       ELSE UNCHANGED <<queue, accepted, next_id>>
    /\ IF agent_status[e] = "failed"
       THEN Apply(e, ExitCont(e, state_obj[e], agent_status[e], "returned"))
       ELSE Apply(e, BoundaryCont(e, state_obj[e], step_idx[e] + 1))
    /\ UNCHANGED <<toolVars, regVars, cfg, tool_kind, executed, stop_seen, faulted>>
    /\ UNCHANGED <<running, lock, chan_pc, published, dispatched>>
    /\ UNCHANGED batchVars
    /\ UNCHANGED setupVars

\* The write of status stopped (line 95) or completed (line 106) is done:
\* execute() returns.
FinalWritten(e) ==
    /\ pc[e] \in {"w_stopped", "w_completed"}
    /\ store' = UpdateState(store, Key(e), state_obj[e])
    /\ Apply(e, ExitCont(e, state_obj[e], agent_status[e], "returned"))
    /\ UNCHANGED <<toolVars, regVars, cfg, tool_kind, executed, stop_seen, faulted>>
    /\ UNCHANGED <<running, lock, queue, chan_pc, next_id, published, accepted,
                   dispatched>>
    /\ UNCHANGED batchVars
    /\ UNCHANGED setupVars

\* The write of status failed (line 113) is done: the exception is re-raised.
FailedWritten(e) ==
    /\ pc[e] = "w_failed"
    /\ store' = UpdateState(store, Key(e), state_obj[e])
    /\ Apply(e, ExitCont(e, state_obj[e], agent_status[e], "raised"))
    /\ UNCHANGED <<toolVars, regVars, cfg, tool_kind, executed, stop_seen, faulted>>
    /\ UNCHANGED <<running, lock, queue, chan_pc, next_id, published, accepted,
                   dispatched>>
    /\ UNCHANGED batchVars
    /\ UNCHANGED setupVars

WritePcs == {"w_init", "w_running", "w_step", "w_record", "w_stopped",
             "w_completed", "w_failed"}

\* The write execute() awaits raises (state_manager.py lines 142-144): the except
\* block of lines 109-114.  With `state` still None nothing is written; an
\* exception of the write of line 113 leaves through the finally block.
WriteFails(e) ==
    /\ pc[e] \in WritePcs
    /\ UNCHANGED store
    /\ IF pc[e] = "w_init"
       THEN Apply(e, ExitCont(e, NoRow, "failed", "raised"))
       ELSE IF pc[e] = "w_failed"
       THEN Apply(e, ExitCont(e, state_obj[e], agent_status[e], "raised"))
       ELSE Apply(e, FailedCont(e, state_obj[e], StoreError))
    /\ UNCHANGED <<toolVars, regVars, cfg, tool_kind, executed, stop_seen>>
    /\ faulted' = [faulted EXCEPT ![e] = TRUE]
    /\ UNCHANGED <<running, lock, queue, chan_pc, next_id, published, accepted,
                   dispatched>>
    /\ UNCHANGED batchVars
    /\ UNCHANGED setupVars

\* The task awaiting execute() is cancelled (the wait_for of execute_agent,
\* agent_executor.py line 30, does so at its timeout): CancelledError is raised at
\* the await execute() is suspended in.  It is not an Exception, so neither
\* safe_execute (BaseTool.py line 64) nor the except block of line 109 catches
\* it, and execute() leaves through the finally block.  Inside the loop of
\* _process_messages it is caught (messaging.py lines 106-107): start() returns
\* and execute() goes on with its steps.  A write in flight may have been
\* committed or not; a tool in flight has been counted at BaseTool.py line 40.
CancelExecute(e) ==
    /\ pc[e] \notin {"idle", "absent"}
    /\ IF pc[e] = "starting" /\ chan_pc[e] = "in_loop"
       THEN /\ lock' = "free"
            /\ chan_pc' = [chan_pc EXCEPT ![e] = "idle"]
            /\ UNCHANGED <<store, execution_count, invocations, calls>>
            /\ Apply(e, BoundaryCont(e, state_obj[e], 1))
       ELSE /\ UNCHANGED lock
            /\ chan_pc' = [chan_pc EXCEPT ![e] = "idle"]
            /\ \E landed \in BOOLEAN :
                  store' = IF landed /\ pc[e] \in WritePcs
                           THEN UpdateState(store, Key(e), state_obj[e])
                           ELSE store
            /\ IF pc[e] = "tool"
               THEN LET name == cfg[e].tools[tool_idx[e]]
                        o == GetTool(name)
                    IN  /\ execution_count' =
                             [execution_count EXCEPT
                                ![o] = IF ValidateParams(EngineParams) THEN @ + 1 ELSE @]
                        /\ invocations' = [invocations EXCEPT ![name] = @ + 1]
                        /\ calls' = Append(calls, [step |-> Steps(e)[step_idx[e]],
                                                   tool |-> name])
               ELSE UNCHANGED <<execution_count, invocations, calls>>
            /\ Apply(e, ExitCont(e, state_obj[e], agent_status[e], "cancelled"))
    /\ UNCHANGED <<error_count, lastCall, regVars, cfg, tool_kind, executed, stop_seen,
                   faulted>>
    /\ UNCHANGED <<running, queue, next_id, published, accepted, dispatched>>
    /\ UNCHANGED batchVars
    /\ UNCHANGED setupVars

\* Whether execute() of e will look at the stop flag again.
BoundaryAhead(e) ==
    \/ pc[e] \in {"w_running", "starting"}
    \/ pc[e] \in {"w_step", "tool", "w_record"} /\ step_idx[e] < Len(Steps(e))

\* A handler that ignores every message.
HandleMessageIgnored(status, message) == status

\* _handle_message (lines 61-65): _status after the message.
HandleMessage(status, message) ==
    IF message.message_type = "stop" THEN "stopped" ELSE status

\* One round of the loop of _process_messages in task t whose message goes to
\* the handler of an Agent.
DispatchEngine(t) ==
    /\ chan_pc[t] = "in_loop"
    /\ running
    /\ queue # <<>>
    /\ LET got == QueueGet(queue)
           callback == Callback(subscribers, got.message.receiver)
       IN  /\ callback \in Engines
           /\ queue' = got.rest
           /\ dispatched' = Append(dispatched,
                                   [id |-> got.message.id, handler |-> callback,
                                    latest |-> last_subscribed[got.message.receiver],
                                    raised |-> FALSE])
           /\ agent_status' = [agent_status EXCEPT
                                 ![callback] = HandleMessage(@, got.message)]
           /\ stop_seen' =
                IF /\ got.message.message_type = "stop"
                   /\ ~stop_seen[callback].seen
                   /\ BoundaryAhead(callback)
                THEN [stop_seen EXCEPT ![callback] =
                        [seen |-> TRUE, idx |-> step_idx[callback],
                         recorded |-> DOMAIN GetState(store, Key(callback)).step_results]]
                ELSE stop_seen
    /\ UNCHANGED <<running, lock, subscribers, chan_pc, next_id, published, accepted,
                   last_subscribed>>
    /\ UNCHANGED <<toolVars, regVars, storeVars>>
    /\ UNCHANGED <<cfg, tool_kind, pc, state_obj, step_idx, tool_idx, step_results,
                   executed, ended, exit_row, faulted, clock, inits>>
    /\ UNCHANGED batchVars
    /\ UNCHANGED setupVars

\* The controller publishes a stop message for Agent e.
SendStop(e) ==
    /\ published < MaxStops
    /\ Send("controller", cfg[e].name, "stop")
    /\ UNCHANGED batchVars
    /\ UNCHANGED setupVars

\* The controller publishes a stop message for Agent e while its execute()
\* is in progress.
SendStopDuring(e) ==
    /\ pc[e] \notin {"idle", "absent"}
    /\ SendStop(e)

\* The intermediate step lists of the AgentSpecs of the model.
MidSteps == UNION {[1..k -> {"s3"}] : k \in 0..MaxMid}

\* The AgentSpecs of the model: the first step is s1 and the last step may
\* repeat it.
Configs ==
    {[name |-> "alpha", user_id |-> "u1", tools |-> SpecTools, initial_step |-> "s1",
      steps |-> m, final_step |-> f, continue_on_error |-> c] :
        m \in MidSteps, f \in {"s1", "s2"}, c \in BOOLEAN}

\* A registry holding the tool objects of the names in S (register_tool, lines 70-75).
RegistryOf(S) == [n \in S |-> RegisteredObj(n)]

\* Agent e1 is constructed (Agent.__init__ subscribes it, line 45) over a
\* registry with any of the two tools registered, web_search good or bad and
\* db_tool good, a store without rows and a channel that has not been started.
InitSpec ==
    /\ InitTool
    /\ running = FALSE
    /\ lock = "free"
    /\ queue = <<>>
    /\ subscribers = MapPut(EmptyMap, "alpha", "e1")
    /\ chan_pc = [t \in Tasks \cup Engines |-> "idle"]
    /\ next_id = 1
    /\ published = 0
    /\ accepted = <<>>
    /\ dispatched = <<>>
    /\ last_subscribed = [r \in Receivers |-> IF r = "alpha" THEN "e1" ELSE "none"]
    /\ InitStore
    /\ lastReg = NoReg
    /\ \E S \in SUBSET ToolNames :
          /\ registry_tools = RegistryOf(S)
          /\ tool_metadata = [n \in S |-> FreshMetadata]
          /\ tool_kind \in {k \in [ToolObjs -> {"good", "bad"}] :
                              \A o \in ToolObjs :
                                 o # RegisteredObj("web_search") \/ "web_search" \notin S
                                    => k[o] = "good"}
    /\ cfg \in {c \in [Engines -> Configs \cup {AbsentConfig}] :
                  c["e1"] \in Configs /\ c["e2"] = AbsentConfig}
    /\ pc = [e \in Engines |-> IF e = "e1" THEN "idle" ELSE "absent"]
    /\ agent_status = [e \in Engines |-> "initialized"]
    /\ state_obj = [e \in Engines |-> NoRow]
    /\ step_idx = [e \in Engines |-> 0]
    /\ tool_idx = [e \in Engines |-> 0]
    /\ step_results = [e \in Engines |-> EmptyMap]
    /\ executed = [e \in Engines |-> FALSE]
    /\ ended = [e \in Engines |-> "none"]
    /\ exit_row = [e \in Engines |-> NoRow]
    /\ stop_seen = [e \in Engines |-> NoStop]
    /\ faulted = [e \in Engines |-> FALSE]
    /\ clock = 0
    /\ inits = 0
    /\ InitBatch
    /\ InitSetup

Next ==
    \/ \E e \in Engines : InitializeState(e)
    \/ \E e \in Engines : ExecuteStart(e)
    \/ \E e \in Engines : InitWritten(e)
    \/ \E e \in Engines : RunningWritten(e)
    \/ \E e \in Engines : StepWritten(e)
    \/ \E e \in Engines : ToolReturns(e)
    \/ \E e \in Engines : RecordWritten(e)
    \/ \E e \in Engines : FinalWritten(e)
    \/ \E e \in Engines : FailedWritten(e)
    \/ \E e \in Engines : WriteFails(e)
    \/ \E e \in Engines : SendStop(e)
    \/ Start("t1")
    \/ \E t \in Tasks \cup Engines : DispatchCallback(t)
    \/ \E t \in Tasks \cup Engines : DispatchEngine(t)

\* One Engine run by its callers, with a controller that may send it a stop
\* message, a task that may start the channel, and a store whose writes may fail.
Spec == InitSpec /\ [][Next]_vars

\* execute() awaited under the wait_for of execute_agent (agent_executor.py
\* line 30), which cancels it at its timeout, with the controller, the starting
\* task and the failing store of Spec.
NextCancel ==
    \/ \E e \in Engines : CancelExecute(e)
    \/ \E e \in Engines : ExecuteStart(e)
    \/ \E e \in Engines : InitWritten(e)
    \/ \E e \in Engines : RunningWritten(e)
    \/ \E e \in Engines : StepWritten(e)
    \/ \E e \in Engines : ToolReturns(e)
    \/ \E e \in Engines : RecordWritten(e)
    \/ \E e \in Engines : FinalWritten(e)
    \/ \E e \in Engines : FailedWritten(e)
    \/ \E e \in Engines : WriteFails(e)
    \/ \E e \in Engines : SendStop(e)
    \/ Start("t1")
    \/ \E t \in Tasks \cup Engines : DispatchCallback(t)
    \/ \E t \in Tasks \cup Engines : DispatchEngine(t)

SpecCancel == InitSpec /\ [][NextCancel]_vars

\* An Engine run on a channel that a task starts, and that is stopped by a
\* second task once the first has been cancelled out of the loop, at any moment
\* of the run; no stop message and no failing write.
NextProgress ==
    \/ \E e \in Engines : ExecuteStart(e)
    \/ \E e \in Engines : InitWritten(e)
    \/ \E e \in Engines : RunningWritten(e)
    \/ \E e \in Engines : StepWritten(e)
    \/ \E e \in Engines : ToolReturns(e)
    \/ \E e \in Engines : RecordWritten(e)
    \/ \E e \in Engines : FinalWritten(e)
    \/ Start("t1")
    \/ CancelTask("t1")
    \/ Stop("t2")
    \/ StopAcquire("t2")
    \/ \E t \in Tasks \cup Engines : DispatchCallback(t)

SpecProgress == InitSpec /\ [][NextProgress]_vars

\* An Agent object whose execute() is awaited again after it has ended, on a
\* channel a task starts; no stop message and no failing write.
NextRerun ==
    \/ \E e \in Engines : ExecuteStart(e)
    \/ \E e \in Engines : ExecuteAgain(e)
    \/ \E e \in Engines : InitWritten(e)
    \/ \E e \in Engines : RunningWritten(e)
    \/ \E e \in Engines : StepWritten(e)
    \/ \E e \in Engines : ToolReturns(e)
    \/ \E e \in Engines : RecordWritten(e)
    \/ \E e \in Engines : FinalWritten(e)
    \/ Start("t1")
    \/ \E t \in Tasks \cup Engines : DispatchCallback(t)

SpecRerun == InitSpec /\ [][NextRerun]_vars

\* An Engine whose stop messages are sent while its execute() is in progress,
\* on a channel a task has started or the Engine starts itself; no failing
\* write.
NextStopping ==
    \/ \E e \in Engines : ExecuteStart(e)
    \/ \E e \in Engines : InitWritten(e)
    \/ \E e \in Engines : RunningWritten(e)
    \/ \E e \in Engines : StepWritten(e)
    \/ \E e \in Engines : ToolReturns(e)
    \/ \E e \in Engines : RecordWritten(e)
    \/ \E e \in Engines : FinalWritten(e)
    \/ \E e \in Engines : SendStopDuring(e)
    \/ Start("t1")
    \/ \E t \in Tasks \cup Engines : DispatchCallback(t)
    \/ \E t \in Tasks \cup Engines : DispatchEngine(t)

SpecStopping == InitSpec /\ [][NextStopping]_vars

\* The dispatch loop of the channel has ended by a cancellation: _running is
\* set and no task is in the loop (messaging.py lines 106-107).
LoopCancelled == running /\ \A t \in DOMAIN chan_pc : chan_pc[t] # "in_loop"

\* How the execute() of Agent e, once ended, ends for execute_agent and
\* process_agent (agent_executor.py lines 30, 72): as it ended itself, or, when
\* a wait_for has cancelled it, by the TimeoutError of that wait_for, or by
\* the cancellation of process_agent at the timeout of run_async.
OutcomesOf(e) ==
    (CASE ended[e] = "returned" -> {"returns"}
       [] ended[e] = "raised" -> {"raises"}
       [] OTHER -> {"timeout_inner"})
    \cup (IF ended[e] = "cancelled" \/ LoopCancelled
          THEN {"timeout_outer", "overrun"} ELSE {})

\* process_agent up to its wait_for (agent_executor.py lines 56-70): the Agent
\* is constructed with a channel of its own, initialize_state() is awaited
\* and "Starting" is shown.
ProcessAgentInit(e) ==
    /\ pc[e] = "idle"
    /\ ~executed[e]
    /\ cfg[e].name \notin DOMAIN execution_status
    /\ store' = CreateState(store, Key(e), FreshRow(Now))
    /\ clock' = Now
    /\ execution_status' = ShowAgentStatus(execution_status, cfg[e].name, "Starting")
    /\ UNCHANGED <<batch, batch_pc, batch_idx, constructed, ran, outcomes>>
    /\ UNCHANGED <<toolVars, regVars, chanVars, lastOp>>
    /\ UNCHANGED <<cfg, tool_kind, pc, agent_status, state_obj, step_idx, tool_idx,
                   step_results, executed, ended, exit_row, stop_seen, faulted, inits>>
    /\ UNCHANGED setupVars

\* execute_agent awaits execute() under its wait_for (lines 30-33).
ProcessAgentExecute(e) ==
    /\ cfg[e].name \in DOMAIN execution_status
    /\ ExecuteStart(e)

\* execute() has ended: the status execute_agent and process_agent show
\* (lines 34-49, 76-81).
ProcessAgentEnds(e, outcome) ==
    /\ ended[e] # "none"
    /\ cfg[e].name \in DOMAIN execution_status
    /\ execution_status[cfg[e].name] = "Starting"
    /\ Len(outcomes) < Cardinality({x \in Engines : ended[x] # "none"})
    /\ outcome \in OutcomesOf(e)
    /\ execution_status' =
          ShowAgentStatus(execution_status, cfg[e].name,
                          ProcessAgentResult(ExecuteAgentResult(outcome)).status)
    /\ outcomes' = Append(outcomes,
                          [outcome |-> outcome,
                           raised |-> ProcessAgentResult(ExecuteAgentResult(outcome)).raised])
    /\ UNCHANGED <<batch, batch_pc, batch_idx, constructed, ran>>
    /\ UNCHANGED <<toolVars, regVars, chanVars, storeVars, engVars>>
    /\ UNCHANGED setupVars

\* process_agent with the Engine it runs: the Agent has a channel of its own
\* that nobody else starts or sends to, its execute() is cancelled by the
\* wait_fors at their timeouts, and the writes of the store may fail.
NextProcess ==
    \/ \E e \in Engines : ProcessAgentInit(e)
    \/ \E e \in Engines : ProcessAgentExecute(e)
    \/ \E e \in Engines : InitWritten(e)
    \/ \E e \in Engines : RunningWritten(e)
    \/ \E e \in Engines : StepWritten(e)
    \/ \E e \in Engines : ToolReturns(e)
    \/ \E e \in Engines : RecordWritten(e)
    \/ \E e \in Engines : FinalWritten(e)
    \/ \E e \in Engines : FailedWritten(e)
    \/ \E e \in Engines : WriteFails(e)
    \/ \E e \in Engines : CancelExecute(e)
    \/ \E e \in Engines, outcome \in RunOutcomes : ProcessAgentEnds(e, outcome)

SpecProcess == InitSpec /\ [][NextProcess]_vars

\* Two Agents constructed one after the other on one channel (__init__
\* subscribes each under its name, base.py line 45): e2 has the AgentSpec of
\* e1, of two steps, under the same or under another name; both tools are
\* registered.
InitShared ==
    /\ InitTool
    /\ running = FALSE
    /\ lock = "free"
    /\ queue = <<>>
    /\ chan_pc = [t \in Tasks \cup Engines |-> "idle"]
    /\ next_id = 1
    /\ published = 0
    /\ accepted = <<>>
    /\ dispatched = <<>>
    /\ InitStore
    /\ lastReg = NoReg
    /\ registry_tools = RegistryOf(ToolNames)
    /\ tool_metadata = [n \in ToolNames |-> FreshMetadata]
    /\ tool_kind = [o \in ToolObjs |-> "good"]
    /\ \E c \in {k \in Configs : k.steps = <<>> /\ ~k.continue_on_error}, n \in AgentNames :
          /\ cfg = [e \in Engines |-> IF e = "e1" THEN c ELSE [c EXCEPT !.name = n]]
          /\ subscribers = SubscribeResult(SubscribeResult(EmptyMap, c.name, "e1"), n, "e2")
          /\ last_subscribed = [r \in Receivers |->
                                  IF r = n THEN "e2" ELSE IF r = c.name THEN "e1" ELSE "none"]
    /\ pc = [e \in Engines |-> "idle"]
    /\ agent_status = [e \in Engines |-> "initialized"]
    /\ state_obj = [e \in Engines |-> NoRow]
    /\ step_idx = [e \in Engines |-> 0]
    /\ tool_idx = [e \in Engines |-> 0]
    /\ step_results = [e \in Engines |-> EmptyMap]
    /\ executed = [e \in Engines |-> FALSE]
    /\ ended = [e \in Engines |-> "none"]
    /\ exit_row = [e \in Engines |-> NoRow]
    /\ stop_seen = [e \in Engines |-> NoStop]
    /\ faulted = [e \in Engines |-> FALSE]
    /\ clock = 0
    /\ inits = 0
    /\ InitBatch
    /\ InitSetup

\* The execute() calls of the two Agents interleaved at their awaits, on a
\* channel that a task starts or the first Agent to reach line 88 starts; no
\* stop message and no failing write.
NextShared ==
    \/ \E e \in Engines : ExecuteStart(e)
    \/ \E e \in Engines : InitWritten(e)
    \/ \E e \in Engines : RunningWritten(e)
    \/ \E e \in Engines : StepWritten(e)
    \/ \E e \in Engines : ToolReturns(e)
    \/ \E e \in Engines : RecordWritten(e)
    \/ \E e \in Engines : FinalWritten(e)
    \/ Start("t1")
    \/ \E t \in Tasks \cup Engines : DispatchCallback(t)

SpecShared == InitShared /\ [][NextShared]_vars

\* Every component as constructed.
InitBase ==
    /\ InitTool
    /\ InitRegistry
    /\ InitChannel
    /\ InitStore
    /\ InitEngine
    /\ InitBatch
    /\ InitSetup

\* The tool contract alone: callers invoking safe_execute with any params.
SpecTool == InitBase /\ [][NextTool]_vars

\* The registry alone: clients registering, unregistering and reporting metrics.
SpecRegistry == InitBase /\ [][NextRegistry]_vars

\* The channel alone: tasks starting, stopping and being cancelled, publishers
\* and subscribers with their own callbacks.
SpecChannel == InitBase /\ [][NextChannel]_vars

SpecStore == InitBase /\ [][NextStore]_vars

SpecKeys == InitBase /\ [][NextKeys]_vars

\* One response handed to generate_rules, then the loop of main.py or
\* execute_agents on the rules, each execute() ending in any way.
SpecBatch == InitBase /\ [][NextBatch]_vars

\* initialize_state() of Agents of any key, over rows other writers left.
SpecInitialize == InitBase /\ [][NextInitialize]_vars

\* Callers making their first and later calls on one StateManager, the setup
\* ending in any way.
SpecSetup == InitBase /\ [][NextSetup]_vars

(***************************************************************************)
(* Claims about the tool contract                                          *)
(***************************************************************************)
ErrorCase(c) ==
    \/ ~(RequiredParams \subseteq c.keys)
    \/ c.outcome \in {"raise", "timeout", "nondict"}

\* C6: safe_execute() never raises to its caller and always returns a mapping;
\* with required keys missing, or execute() raising, timing out or returning a
\* non-mapping, the value returned has status "error", an error message and a
\* state of exactly {last_error, error_count}; with missing keys execute() is
\* never invoked.
C6_SafeExecuteNeverRaises ==
    lastCall.tool # "none" =>
        /\ ~lastCall.raised
        /\ lastCall.result.mapping
        /\ ErrorCase(lastCall) =>
              /\ lastCall.result.status = "error"
              /\ lastCall.result.error # "none"
              /\ lastCall.result.state.present
              /\ lastCall.result.state.keys = {"last_error", "error_count"}
        /\ ~(RequiredParams \subseteq lastCall.keys) => ~lastCall.invoked

\* C6 witness: a call whose execute() raised came back as an error result, and a
\* call with missing keys came back without execute() being invoked.
C6_Witness ==
    /\ lastCall.tool # "none"
    /\ lastCall.outcome = "raise"
    /\ RequiredParams \subseteq lastCall.keys
    /\ lastCall.invoked
    /\ lastCall.result.status = "error"

\* C7: every call of safe_execute() increments the execution counter by exactly
\* one, every call ending in an error result increments the error counter by
\* exactly one, and so the error count never exceeds the execution count.
C7_CountersPerCall ==
    /\ lastCall.tool # "none" =>
          /\ execution_count[lastCall.tool] = lastCall.ec_before + 1
          /\ lastCall.result.status = "error" =>
                error_count[lastCall.tool] = lastCall.errc_before + 1
    /\ \A o \in ToolObjs : error_count[o] <= execution_count[o]

(***************************************************************************)
(* Claims about the registry                                               *)
(***************************************************************************)
\* C9: register_tool() with a name already registered raises
\* ToolAlreadyRegisteredError and leaves the tool mapping and the metadata
\* mapping unchanged; after any sequence of register_tool/unregister_tool calls
\* the two mappings have the same key set.
C9_DuplicateRegistrationRejected ==
    /\ (lastReg.op = "register" /\ lastReg.name \in DOMAIN lastReg.tools_before) =>
          /\ lastReg.raised = "ToolAlreadyRegisteredError"
          /\ registry_tools = lastReg.tools_before
          /\ tool_metadata = lastReg.meta_before
    /\ DOMAIN registry_tools = DOMAIN tool_metadata

\* C9 witness: a second tool object was registered under a name that was taken,
\* after the metadata of the first had counted an invocation.
C9_Witness ==
    /\ lastReg.op = "register"
    /\ lastReg.raised = "ToolAlreadyRegisteredError"
    /\ lastReg.tool = "o2"
    /\ registry_tools["web_search"] = "o1"
    /\ tool_metadata["web_search"].execution_count > 0

(***************************************************************************)
(* Claims about the channel                                                *)
(***************************************************************************)
Ids(log) == [i \in 1..Len(log) |-> log[i].id]

\* The handler invocations among the dispatched messages, in order.
Invocations == SelectSeq(dispatched, LAMBDA d : d.handler # "none")

\* s is an order-preserving subsequence of t (both without repetition in t).
RECURSIVE IsSubsequence(_, _)
IsSubsequence(s, t) ==
    IF s = <<>> THEN TRUE
    ELSE IF t = <<>> THEN FALSE
    ELSE IF Head(s) = Head(t) THEN IsSubsequence(Tail(s), Tail(t))
    ELSE IsSubsequence(s, Tail(t))

\* C10: on a running channel the handler invocations are an order-preserving
\* subsequence of the messages accepted by send(); at most one dispatch loop is
\* active, each message invokes at most one handler at most once, and the
\* handler is the one most recently subscribed for the receiver when the
\* message is dispatched.
C10_FifoSingleDispatch ==
    /\ IsSubsequence(Ids(Invocations), accepted)
    /\ IsSubsequence(Ids(dispatched), accepted)
    /\ \A i, j \in 1..Len(dispatched) :
          dispatched[i].id = dispatched[j].id => i = j
    /\ \A i \in 1..Len(dispatched) : dispatched[i].handler = dispatched[i].latest
    /\ Cardinality({t \in Tasks \cup Engines : chan_pc[t] = "in_loop"}) <= 1

\* C10 witness: three accepted messages, the first and the last delivered to
\* handlers in that order, the receiver of one of them re-subscribed before the
\* delivery, the middle one dropped.
C10_Witness ==
    /\ Len(accepted) = 3
    /\ Len(dispatched) = 3
    /\ dispatched[1].handler = "h2"
    /\ dispatched[2].handler = "none"
    /\ dispatched[3].handler = "h1"
    /\ dispatched[3].id = accepted[3]

(***************************************************************************)
(* Claims about the Engine (Spec)                                          *)
(***************************************************************************)
Terminal == {"completed", "failed", "stopped"}

StatusOf(table, k) == GetState(table, k).status

\* The tools of the spec of e that the registry holds.
RegisteredTools(e) ==
    {cfg[e].tools[i] : i \in 1..Len(cfg[e].tools)} \cap DOMAIN registry_tools

\* The registered tools of e whose every invocation yields an error result.
FailingTools(e) == {n \in RegisteredTools(e) : tool_kind[registry_tools[n]] = "bad"}

\* execute() of e has ended uncancelled, no write of the run raised and no stop
\* message was ever sent.
Undisturbed(e) ==
    ended[e] \notin {"none", "cancelled"} /\ ~faulted[e] /\ published = 0

C2_Case(e) ==
    /\ cfg[e].steps = <<>>
    /\ Cardinality(RegisteredTools(e)) = 1
    /\ FailingTools(e) = {}
    /\ Undisturbed(e)

\* C2 as stated: with no intermediate steps and one always-succeeding tool,
\* execute() ends with persisted status completed and step_results has exactly
\* two keys, initial_step and final_step, whatever the two names are.
C2_TwoKeys ==
    \A e \in Engines :
       C2_Case(e) =>
          /\ exit_row[e].status = "completed"
          /\ DOMAIN exit_row[e].step_results = {cfg[e].initial_step, cfg[e].final_step}
          /\ Cardinality(DOMAIN exit_row[e].step_results) = 2

\* C2 amended: with no intermediate steps and one always-succeeding tool,
\* execute() ends with persisted status completed and the keys of step_results
\* are exactly the names initial_step and final_step: two keys when the names
\* differ, one key when they are the same name.
C2_KeysAreStepNames ==
    \A e \in Engines :
       C2_Case(e) =>
          /\ exit_row[e].status = "completed"
          /\ DOMAIN exit_row[e].step_results = {cfg[e].initial_step, cfg[e].final_step}
          /\ Cardinality(DOMAIN exit_row[e].step_results) =
                IF cfg[e].initial_step = cfg[e].final_step THEN 1 ELSE 2

\* C2 witness: such a run has ended with both steps under one name.
C2_Witness ==
    /\ C2_Case("e1")
    /\ cfg["e1"].initial_step = cfg["e1"].final_step
    /\ exit_row["e1"].status = "completed"
    /\ Cardinality(DOMAIN exit_row["e1"].step_results) = 1

\* C3: with continue_on_error off and a tool whose every invocation yields an
\* error result, execute() ends with persisted status failed, last_error is
\* set, and no step after the first (failing) step is recorded.
C3_FailFast ==
    \A e \in Engines :
       (~cfg[e].continue_on_error /\ FailingTools(e) # {} /\ Undisturbed(e)) =>
          /\ exit_row[e].status = "failed"
          /\ "last_error" \in DOMAIN exit_row[e].shared_data
          /\ \A i \in 2..Len(Steps(e)) :
                \/ Steps(e)[i] = Steps(e)[1]
                \/ Steps(e)[i] \notin DOMAIN exit_row[e].step_results

\* C4: with continue_on_error on and a tool whose every invocation yields an
\* error result, execute() invokes the tool in every step, ends with persisted
\* status completed, and step_results[step][tool] has status "error" for every
\* step.
C4_ContinueOnError ==
    \A e \in Engines :
       (cfg[e].continue_on_error /\ FailingTools(e) # {} /\ Undisturbed(e)) =>
          /\ exit_row[e].status = "completed"
          /\ \A n \in FailingTools(e) : invocations[n] = Len(Steps(e))
          /\ \A i \in 1..Len(Steps(e)) :
                /\ Steps(e)[i] \in DOMAIN exit_row[e].step_results
                /\ \A n \in FailingTools(e) :
                      /\ n \in DOMAIN exit_row[e].step_results[Steps(e)[i]]
                      /\ exit_row[e].step_results[Steps(e)[i]][n].status = "error"

\* C4 witness: a run of three steps with a failing and a succeeding tool has
\* ended completed.
C4_Witness ==
    /\ cfg["e1"].continue_on_error
    /\ FailingTools("e1") = {"web_search"}
    /\ RegisteredTools("e1") = {"web_search", "db_tool"}
    /\ Undisturbed("e1")
    /\ Len(Steps("e1")) = 3
    /\ exit_row["e1"].status = "completed"
    /\ exit_row["e1"].step_results["s3"]["web_search"].status = "error"
    /\ exit_row["e1"].step_results["s3"]["db_tool"].status = "success"

\* C5: once a stop message has been handled by a running agent that still has
\* a step boundary ahead, execute() starts no step beyond that boundary, the
\* write it awaits at the boundary is the one of status stopped, a run that
\* returns has persisted stopped, and the steps recorded when the stop was
\* handled are still in the persisted row.
C5_StopAtNextBoundary ==
    \A e \in Engines :
       stop_seen[e].seen =>
          /\ step_idx[e] <= stop_seen[e].idx + 1
          /\ (step_idx[e] = stop_seen[e].idx + 1) =>
                /\ pc[e] \in {"w_stopped", "w_failed", "idle"}
                /\ (pc[e] = "w_stopped") => (state_obj[e].status = "stopped")
          /\ (pc[e] # "idle") =>
                (stop_seen[e].recorded \subseteq
                    DOMAIN GetState(store, Key(e)).step_results)
          /\ (ended[e] = "returned") =>
                /\ exit_row[e].status = "stopped"
                /\ stop_seen[e].recorded \subseteq DOMAIN exit_row[e].step_results

\* C5 witness: a stop was handled during the second step, the run returned
\* with status stopped and the two steps recorded, the third never started.
C5_Witness ==
    /\ stop_seen["e1"].seen
    /\ stop_seen["e1"].idx = 2
    /\ stop_seen["e1"].recorded = {"s1"}
    /\ Len(Steps("e1")) = 3
    /\ ended["e1"] = "returned"
    /\ exit_row["e1"].status = "stopped"
    /\ DOMAIN exit_row["e1"].step_results = {"s1", "s3"}

\* C8: after an Engine run the registry metadata of each tool counts the
\* Engine's invocations of it: execution_count is the number of invocations,
\* error_count the number of those that returned an error result.
C8_MetadataCountsInvocations ==
    \A e \in Engines :
       ended[e] # "none" =>
          \A n \in RegisteredTools(e) :
             /\ tool_metadata[n].execution_count = invocations[n]
             /\ tool_metadata[n].error_count = error_count[registry_tools[n]]

(***************************************************************************)
(* Claims about the channel, continued (SpecChannel)                       *)
(***************************************************************************)
\* The task that runs the dispatch loop, "none" without one.
LoopTask(pcs) ==
    IF \E t \in DOMAIN pcs : pcs[t] = "in_loop"
    THEN CHOOSE t \in DOMAIN pcs : pcs[t] = "in_loop"
    ELSE "none"

\* C11: a round of the loop that drops a message without handler, or whose
\* handler raises, takes exactly that message off the queue, and leaves the
\* channel running and the same task in the loop with the next message at the
\* head of the queue; nothing is raised to the task.
C11_ChannelErrorsAbsorbed ==
    [][(Len(dispatched') = Len(dispatched) + 1) =>
          LET entry == dispatched'[Len(dispatched')]
          IN  (entry.handler = "none" \/ entry.raised) =>
                 /\ running'
                 /\ LoopTask(chan_pc) # "none"
                 /\ LoopTask(chan_pc') = LoopTask(chan_pc)
                 /\ lock' = LoopTask(chan_pc)
                 /\ queue # <<>>
                 /\ queue' = Tail(queue)
                 /\ entry.id = Head(queue).id]_vars

\* C11 witness: a message without handler was dropped, then a handler raised,
\* then the third message was delivered to a handler, and the channel runs.
C11_Witness ==
    /\ Len(dispatched) = 3
    /\ dispatched[1].handler = "none"
    /\ dispatched[2].raised
    /\ dispatched[3].handler = "h1"
    /\ running
    /\ LoopTask(chan_pc) # "none"

\* C12: a send() on a channel that is not running leaves the queue, the
\* subscriber mapping and the running flag as they are and invokes no handler,
\* and no handler is ever invoked for a message that was not queued.
C12_SendNotRunningNoOp ==
    [][/\ (published' = published + 1 /\ ~running) =>
             /\ queue' = queue
             /\ subscribers' = subscribers
             /\ running' = running
             /\ lock' = lock
             /\ chan_pc' = chan_pc
             /\ dispatched' = dispatched
             /\ accepted' = accepted
       /\ \A i \in 1..Len(dispatched') :
             \E j \in 1..Len(accepted') : accepted'[j] = dispatched'[i].id]_vars

\* C12 witness: the first message was sent before the channel was started and
\* was never queued; the second one, sent to the running channel, was delivered.
C12_Witness ==
    /\ published = 2
    /\ accepted = <<2>>
    /\ Len(dispatched) = 1
    /\ dispatched[1].id = 2
    /\ dispatched[1].handler = "h1"
    /\ queue = <<>>

\* The steps the event loop owes to a task that can run: a waiter of the lock
\* gets it once it is free, and the dispatch loop takes the next message.
\* Callers, senders and cancellation are free to act or not.
ChannelFairness ==
    /\ \A t \in Tasks : WF_vars(StartAcquire(t))
    /\ \A t \in Tasks : WF_vars(StopAcquire(t))
    /\ \A t \in Tasks : WF_vars(DispatchCallback(t))

SpecChannelLive == InitBase /\ [][NextChannel]_vars /\ ChannelFairness

\* C13: a start() that found the channel not running eventually returns to its
\* caller, whether or not anyone calls stop() or cancels the caller.
C13_StartReturns ==
    \A t \in Tasks : [](chan_pc[t] = "in_loop" => <>(chan_pc[t] = "idle"))

\* C14: whatever the interleaving of start() calls (with stop() calls, senders
\* and cancellations around them), at most one task is in the dispatch loop,
\* and a start() that gets the lock of a running channel returns and changes
\* nothing: running flag, lock, queue and subscribers stay as they are and no
\* loop is started.
C14_StartIdempotent ==
    [][/\ Cardinality({t \in DOMAIN chan_pc' : chan_pc'[t] = "in_loop"}) <= 1
       /\ \A t \in DOMAIN chan_pc :
             (running /\ chan_pc[t] = "start_wait" /\ chan_pc'[t] # "start_wait") =>
                /\ chan_pc'[t] = "idle"
                /\ running' = running
                /\ lock' = lock
                /\ queue' = queue
                /\ subscribers' = subscribers
       /\ \A t \in DOMAIN chan_pc :
             (running /\ chan_pc[t] = "idle" /\ chan_pc'[t] # "idle") =>
                /\ chan_pc'[t] \in {"start_wait", "stop_wait"}
                /\ running' = running
                /\ lock' = lock
                /\ queue' = queue]_vars

\* C14 witness: while one caller of start() runs the loop and has dispatched
\* messages, a second start() call is in progress on the running channel.
C14_Witness ==
    /\ running
    /\ chan_pc["t1"] = "in_loop"
    /\ chan_pc["t2"] = "start_wait"
    /\ Len(dispatched) >= 1

\* C15: a stop() called on a running channel eventually completes: a caller
\* waiting in stop() does not wait forever (its call ends, by completing or,
\* at the latest, by the caller being cancelled).
C15_StopCompletes ==
    \A t \in Tasks :
       []((running /\ chan_pc[t] = "stop_wait") => <>(chan_pc[t] # "stop_wait"))

(***************************************************************************)
(* Claims about the store (SpecStore)                                      *)
(***************************************************************************)
\* C16: after update_state(s), get_state of the key of s returns a state equal
\* to s field for field, whatever row the key held before.
C16_RoundTrip ==
    lastOp.op = "put" =>
       /\ ~lastOp.raised
       /\ GetState(store, lastOp.key) = lastOp.row

(***************************************************************************)
(* Claims about the Engine, continued (Spec)                               *)
(***************************************************************************)
\* C17: every write of an Engine to a key that holds a row stores a
\* last_updated strictly greater than the one of the row it replaces.
C17_LastUpdatedIncreases ==
    [][\A k \in DOMAIN store \cap DOMAIN store' :
          store'[k] # store[k] =>
             GetState(store', k).last_updated > GetState(store, k).last_updated]_vars

\* C18 as stated: a step name that is in the persisted step_results of a key
\* is in every later persisted row of that key.
C18_StepsNeverLost ==
    [][\A k \in DOMAIN store \cap DOMAIN store' :
          DOMAIN GetState(store, k).step_results
             \subseteq DOMAIN GetState(store', k).step_results]_vars

\* C18 amended: a write to a key keeps every step name the persisted
\* step_results held, unless it is the re-seed of initialize_state() (also the
\* one execute() makes first), which replaces the row by a fresh one with empty
\* step_results.
C18_StepsLostOnlyByReseed ==
    [][\A k \in DOMAIN store \cap DOMAIN store' :
          \/ DOMAIN GetState(store, k).step_results
                \subseteq DOMAIN GetState(store', k).step_results
          \/ GetState(store', k) = FreshRow(GetState(store', k).last_updated)]_vars

\* C18 witness: a run recorded its three steps and returned; a later
\* initialize_state() has emptied the persisted step_results.
C18_Witness ==
    /\ ended["e1"] = "returned"
    /\ DOMAIN exit_row["e1"].step_results = {"s1", "s3", "s2"}
    /\ DOMAIN GetState(store, Key("e1")).step_results = {}
    /\ GetState(store, Key("e1")).status = "initialized"

(***************************************************************************)
(* Claims about initialize_state (SpecInitialize)                          *)
(***************************************************************************)
\* C19: initialize_state() is idempotent: after every call, whatever the key
\* held (nothing, a fresh row, the row of a finished run), the call has not
\* failed, the stored row of the key has status initialized, no current_step
\* and empty tools_state, shared_data and step_results, and the rows of the
\* other keys are as they were.
C19_InitializeIdempotent ==
    lastOp.op = "init" =>
       /\ ~lastOp.raised
       /\ lastOp.key \in DOMAIN store
       /\ LET row == GetState(store, lastOp.key)
          IN  /\ row.status = "initialized"
              /\ row.current_step = "none"
              /\ row.tools_state = EmptyMap
              /\ row.shared_data = EmptyMap
              /\ row.step_results = EmptyMap
       /\ \A k \in StoreKeys \ {lastOp.key} :
             /\ k \in DOMAIN store <=> k \in DOMAIN lastOp.before
             /\ k \in DOMAIN store => store[k] = lastOp.before[k]

\* C19 witness: a second initialize_state() for a key whose row an earlier
\* call seeded, while another key holds the row of a finished run.
C19_Witness ==
    /\ lastOp.op = "init"
    /\ lastOp.key = <<"alpha", "u1">>
    /\ lastOp.key \in DOMAIN lastOp.before
    /\ GetState(lastOp.before, lastOp.key) = FreshRow(1)
    /\ GetState(store, lastOp.key) = FreshRow(2)
    /\ <<"beta", "u1">> \in DOMAIN store
    /\ GetState(store, <<"beta", "u1">>).status = "completed"

\* C19 witness, second case: initialize_state() over the row of a finished run.
C19_WitnessOverFinished ==
    /\ lastOp.op = "init"
    /\ lastOp.key \in DOMAIN lastOp.before
    /\ GetState(lastOp.before, lastOp.key).status = "completed"
    /\ GetState(store, lastOp.key).status = "initialized"

(***************************************************************************)
(* Claims about the exit of execute() (SpecCancel)                         *)
(***************************************************************************)
\* C20: once execute() of an Agent has exited, by return after the last step,
\* by return at a stop, by an exception or by cancellation, no handler is
\* registered on the channel under the Agent's name.
C20_NoDanglingSubscriber ==
    \A e \in Engines :
       ended[e] # "none" => cfg[e].name \notin DOMAIN subscribers

\* C20 witness: execute() was cancelled in the middle of a step, after the
\* handler had been registered and used for a stop message.
C20_Witness ==
    /\ ended["e1"] = "cancelled"
    /\ step_idx["e1"] >= 1
    /\ agent_status["e1"] = "stopped"
    /\ cfg["e1"].name \notin DOMAIN subscribers

\* The other exits of C20 happen as well.
C20_WitnessReturned == ended["e1"] = "returned" /\ "alpha" \notin DOMAIN subscribers
C20_WitnessStopped ==
    /\ ended["e1"] = "returned"
    /\ exit_row["e1"].status = "stopped"
    /\ "alpha" \notin DOMAIN subscribers
C20_WitnessRaised == ended["e1"] = "raised" /\ "alpha" \notin DOMAIN subscribers

(***************************************************************************)
(* Claims about the Engine, continued (Spec)                               *)
(***************************************************************************)
\* C21: when execute() has ended by an exception raised after
\* initialize_state() had returned the state (a write of the run raised), the
\* persisted row has status failed and the error text in
\* shared_data.last_error.
C21_FailureRecorded ==
    \A e \in Engines :
       (ended[e] = "raised" /\ state_obj[e] # NoRow) =>
          /\ exit_row[e].status = "failed"
          /\ "last_error" \in DOMAIN exit_row[e].shared_data

(***************************************************************************)
(* Claims about the batch runners (SpecBatch)                              *)
(***************************************************************************)
\* Whether the runner in progress is the loop of main.py over process_agent.
InProcessLoop == batch_pc \in {"p_init", "p_exec", "processed"}

\* C22: when the execute() of an entry is still running at the timeout of a
\* wait_for around it, process_agent leaves status "timeout" for that agent in
\* the status snapshot, raises nothing, and the loop of main.py goes on: it
\* has constructed the Agent of the next entry or it has finished the batch.
C22_TimeoutRecorded ==
    [][(batch_pc = "p_exec" /\ Len(outcomes') > Len(outcomes)
          /\ outcomes'[Len(outcomes')].outcome
                \in {"timeout_inner", "timeout_outer", "overrun"}) =>
          /\ execution_status'[batch[batch_idx].name] = "timeout"
          /\ outcomes'[Len(outcomes')].raised = "none"
          /\ IF batch_idx < Len(batch)
             THEN /\ batch_pc' = "p_init"
                  /\ batch_idx' = batch_idx + 1
                  /\ constructed' = Append(constructed, batch[batch_idx + 1].name)
             ELSE batch_pc' = "processed"]_vars

\* The names of the entries of the batch, in list order.
BatchNames == [i \in 1..Len(batch) |-> batch[i].name]

\* C23: in every batch runner, whatever way the execute() of an entry ends,
\* the remaining agents are executed: when the runner has ended, execute() has
\* been awaited for every entry of the batch, in list order.
C23_FaultIsolation ==
    batch_pc \in {"processed", "executed", "raised"} => ran = BatchNames

\* C24: when an entry of the response misses a required field or names a tool
\* that is not a known tool name, generate_rules rejects the batch: no Agent
\* is constructed, no execute() is awaited and no row is created, also for the
\* valid entries before the invalid one.
C24_InvalidBatchRejected ==
    (\E i \in 1..Len(batch) : ~ValidAgentData(batch[i])) =>
       /\ batch_pc = "rejected"
       /\ constructed = <<>>
       /\ ran = <<>>
       /\ store = EmptyMap

\* C24 witness: a batch whose first entry is valid and whose second entry
\* names an unknown tool has been rejected.
C24_Witness ==
    /\ batch_pc = "rejected"
    /\ Len(batch) = 2
    /\ ValidAgentData(batch[1])
    /\ batch[2].fields = RequiredFields
    /\ batch[2].tools = <<"web_search", "shell">>

\* C24 witness, second case: the invalid entry misses a field.
C24_WitnessMissingField ==
    /\ batch_pc = "rejected"
    /\ Len(batch) = 2
    /\ ValidAgentData(batch[1])
    /\ batch[2].fields # RequiredFields
    /\ batch[2].tools = <<"web_search">>

\* C25: within one execute() the record step_results[step] is written once
\* and never changed afterwards: a write to a key leaves every step record the
\* persisted row of the key already held as it was, unless it is the re-seed
\* of initialize_state().
C25_StepRecordImmutable ==
    [][\A k \in DOMAIN store \cap DOMAIN store' :
          LET old == GetState(store, k).step_results
              new == GetState(store', k).step_results
          IN  \/ \A s \in DOMAIN old : s \in DOMAIN new /\ new[s] = old[s]
              \/ GetState(store', k) = FreshRow(GetState(store', k).last_updated)]_vars

\* C26: the stop flag is looked at between steps only.  When a stop message
\* was handled while step number idx was in progress and another step was to
\* follow, and no write of the run raised, then at the boundary (the write of
\* status stopped) and at the return of execute(): every registered tool of
\* the list has been invoked in each of the idx steps, the record of step idx
\* is persisted with exactly the registered tools as keys, and no further
\* step has started.
C26_StepCompletesDespiteStop ==
    \A e \in Engines :
       (/\ stop_seen[e].seen
        /\ stop_seen[e].idx >= 1
        /\ ~faulted[e]
        /\ pc[e] = "w_stopped" \/ ended[e] = "returned") =>
          LET step == Steps(e)[stop_seen[e].idx]
              row == GetState(store, Key(e))
          IN  /\ step_idx[e] = stop_seen[e].idx + 1
              /\ \A n \in RegisteredTools(e) : invocations[n] = stop_seen[e].idx
              /\ (pc[e] = "w_stopped") =>
                    /\ step \in DOMAIN row.step_results
                    /\ DOMAIN row.step_results[step] = RegisteredTools(e)
              /\ (ended[e] = "returned") =>
                    /\ step \in DOMAIN exit_row[e].step_results
                    /\ DOMAIN exit_row[e].step_results[step] = RegisteredTools(e)
                    /\ exit_row[e].status = "stopped"

\* C26 witness: the stop was handled during the first of three steps, after
\* which both tools were invoked once, the step recorded and the run stopped.
C26_Witness ==
    /\ stop_seen["e1"].seen
    /\ stop_seen["e1"].idx = 1
    /\ stop_seen["e1"].recorded = {}
    /\ ~faulted["e1"]
    /\ Len(Steps("e1")) = 3
    /\ RegisteredTools("e1") = {"web_search", "db_tool"}
    /\ ended["e1"] = "returned"
    /\ exit_row["e1"].status = "stopped"
    /\ DOMAIN exit_row["e1"].step_results = {"s1"}
    /\ DOMAIN exit_row["e1"].step_results["s1"] = {"web_search", "db_tool"}
    /\ invocations["web_search"] = 1
    /\ invocations["db_tool"] = 1

\* The registered tools of the spec of e, in list order.
RegisteredList(e) ==
    SelectSeq(cfg[e].tools, LAMBDA n : n \in DOMAIN registry_tools)

\* The calls of a whole run of e: for each step of [initial_step] + steps +
\* [final_step] in order, each registered tool of the list once, in list order.
ExpectedCalls(e) ==
    LET R == RegisteredList(e)
        m == Len(R)
    IN  [i \in 1..(Len(Steps(e)) * m) |->
            [step |-> Steps(e)[((i - 1) \div m) + 1], tool |-> R[((i - 1) % m) + 1]]]

IsPrefix(a, b) == Len(a) <= Len(b) /\ \A i \in 1..Len(a) : a[i] = b[i]

\* C27: execute() goes through the steps in the order [initial_step] + steps
\* + [final_step] and in each step invokes each registered tool of the list
\* once, in list order, one invocation at a time: the invocations made so far
\* are always a prefix of that sequence, one invocation is in progress at
\* most and it is the next of the sequence, and a run that ends without a
\* stop or a failing write has made them all.
C27_CallsInOrder ==
    \A e \in Engines :
       pc[e] # "absent" =>
          /\ IsPrefix(calls, ExpectedCalls(e))
          /\ (pc[e] = "tool") =>
                /\ Len(calls) < Len(ExpectedCalls(e))
                /\ ExpectedCalls(e)[Len(calls) + 1] =
                      [step |-> Steps(e)[step_idx[e]], tool |-> cfg[e].tools[tool_idx[e]]]
          /\ Undisturbed(e) => calls = ExpectedCalls(e)

\* C27 witness: a run of three steps over two registered tools has made its
\* six invocations.
C27_Witness ==
    /\ Undisturbed("e1")
    /\ Len(Steps("e1")) = 3
    /\ RegisteredList("e1") = <<"web_search", "db_tool">>
    /\ Len(calls) = 6
    /\ calls[3] = [step |-> "s3", tool |-> "web_search"]
    /\ calls[6] = [step |-> Steps("e1")[3], tool |-> "db_tool"]

(***************************************************************************)
(* Claims about the progress messages (SpecProgress)                       *)
(***************************************************************************)
\* The write of the record of the step in progress of e returns in this step.
RecordDone(e) == pc[e] = "w_record" /\ pc'[e] \in {"w_step", "w_stopped", "w_completed"}

\* This step puts one message on the queue and m is that message.
Enqueued(m) == queue' = Append(queue, m)

\* C28: a progress_update of an Agent is enqueued only when the write of the
\* record of its step has returned, with the step in the persisted row; when
\* that write returns on a running channel exactly one message is enqueued, a
\* progress_update from the Agent to managing_agent; on a channel that is not
\* running nothing is enqueued and the run goes on without error.
C28_ProgressAfterPersist ==
    [][/\ (/\ Len(queue') > Len(queue)
           /\ queue'[Len(queue')].message_type = "progress_update") =>
             \E e \in Engines :
                /\ RecordDone(e)
                /\ Steps(e)[step_idx[e]] \in DOMAIN GetState(store', Key(e)).step_results
       /\ \A e \in Engines :
             RecordDone(e) =>
                IF running
                THEN Enqueued(Message(next_id, cfg[e].name, Coordinator, "progress_update"))
                ELSE queue' = queue /\ ~faulted'[e]]_vars

\* C28 witness: the record of the first step was written on a running channel
\* and its progress message enqueued, the channel was stopped, and the record
\* of the second step was written with nothing enqueued; the run completed.
C28_Witness ==
    /\ ended["e1"] = "returned"
    /\ exit_row["e1"].status = "completed"
    /\ DOMAIN exit_row["e1"].step_results = {"s1", "s2"}
    /\ ~running
    /\ Len(accepted) = 1
    /\ queue = <<>>
    /\ ~faulted["e1"]

(***************************************************************************)
(* Claims about the Engine, continued (Spec)                               *)
(***************************************************************************)
\* The tool names of the list of e.
ListedTools(e) == {cfg[e].tools[i] : i \in 1..Len(cfg[e].tools)}

\* C29: a tool of the list that is not registered is skipped without error:
\* it is never invoked, and a run without a stop message or a failing write
\* ends completed with every step recorded and, in each record, exactly the
\* registered tools of the list as keys (none when none is registered).
C29_MissingToolSkipped ==
    \A e \in Engines :
       pc[e] # "absent" =>
          /\ \A n \in ListedTools(e) \ DOMAIN registry_tools :
                /\ invocations[n] = 0
                /\ \A i \in 1..Len(calls) : calls[i].tool # n
          /\ Undisturbed(e) =>
                /\ ended[e] = "returned"
                /\ exit_row[e].status = "completed"
                /\ "last_error" \notin DOMAIN exit_row[e].shared_data
                /\ DOMAIN exit_row[e].step_results = {Steps(e)[i] : i \in 1..Len(Steps(e))}
                /\ \A s \in DOMAIN exit_row[e].step_results :
                      DOMAIN exit_row[e].step_results[s] = RegisteredTools(e)

\* C29 witness: the first tool of the list is not registered and the second
\* is; the run completed with the second tool alone in every record.
C29_Witness ==
    /\ DOMAIN registry_tools = {"db_tool"}
    /\ cfg["e1"].tools = <<"web_search", "db_tool">>
    /\ Undisturbed("e1")
    /\ exit_row["e1"].status = "completed"
    /\ DOMAIN exit_row["e1"].step_results = {"s1", "s3", "s2"}
    /\ DOMAIN exit_row["e1"].step_results["s3"] = {"db_tool"}
    /\ invocations["web_search"] = 0
    /\ invocations["db_tool"] = 3

\* C29 witness, second case: no tool of the list is registered.
C29_WitnessNoneRegistered ==
    /\ registry_tools = EmptyMap
    /\ Undisturbed("e1")
    /\ exit_row["e1"].status = "completed"
    /\ exit_row["e1"].step_results["s1"] = EmptyMap
    /\ calls = <<>>

(***************************************************************************)
(* Claims about repeated execute() calls (SpecRerun)                       *)
(***************************************************************************)
\* C30: while execute() of an Agent is running, from its entry to its exit,
\* the handler registered on the channel under the Agent's name is the
\* Agent's, in every execute() call on the Agent object.
C30_HandlerRegisteredWhileRunning ==
    \A e \in Engines :
       pc[e] \notin {"idle", "absent"} => Callback(subscribers, cfg[e].name) = e

(***************************************************************************)
(* Claims about the lazy setup of the store (SpecSetup)                    *)
(***************************************************************************)
\* C31: on one StateManager, whatever the interleaving of the callers' first
\* get, update and delete calls, _setup_database returns normally at most
\* once (exactly when _setup_done is set), and no statement of a row
\* operation is executed while _setup_done is unset.
C31_SetupAtMostOnce ==
    /\ setups <= 1
    /\ setup_done <=> setups = 1
    /\ ~op_without_setup
    /\ row_ops > 0 => setup_done /\ schema
    /\ \A c \in DbCallers : db_pc[c] = "connect" => setup_done

\* Two callers made their first call while the flag was unset: one ran the
\* setup, the other waited for the lock and found the flag set under it;
\* both have executed their statements.
C31_Witness ==
    /\ setups = 1
    /\ row_ops >= 2
    /\ \E c, d \in DbCallers :
          /\ db_path[c] = "setup" /\ db_pc[c] = "idle"
          /\ db_path[d] = "rechecked" /\ db_pc[d] = "idle"

\* A setup that failed is tried again by the caller waiting for the lock,
\* and that second setup is the one that completes.
C31_WitnessRetry ==
    /\ setups = 1
    /\ row_ops >= 1
    /\ \E c, d \in DbCallers :
          /\ db_path[c] = "raised"
          /\ db_path[d] = "setup" /\ db_pc[d] = "idle" /\ db_calls = 2

(***************************************************************************)
(* Claims about the store, continued (SpecKeys)                            *)
(***************************************************************************)
\* Whether key k has the same row, or no row, in both tables.
SameRow(t1, t2, k) ==
    /\ k \in DOMAIN t1 <=> k \in DOMAIN t2
    /\ k \in DOMAIN t1 => t1[k] = t2[k]

\* C32: an update or delete for one (agent_id, user_id) leaves the row of
\* every other pair as it was, a get changes nothing and creates no row, and
\* a delete of a pair that has no row changes nothing and does not raise.
C32_OtherKeysUntouched ==
    lastOp.op \in {"put", "delete", "get"} =>
        /\ \A k \in StoreKeys \ {lastOp.key} : SameRow(store, lastOp.before, k)
        /\ lastOp.op = "get" => store = lastOp.before
        /\ lastOp.op = "delete" =>
              /\ ~lastOp.raised
              /\ lastOp.key \notin DOMAIN store
              /\ lastOp.key \notin DOMAIN lastOp.before => store = lastOp.before

\* A delete of a pair without a row, made while the other pair has one.
C32_Witness ==
    /\ lastOp.op = "delete"
    /\ lastOp.key \notin DOMAIN lastOp.before
    /\ \E k \in StoreKeys \ {lastOp.key} : k \in DOMAIN store

\* An update and a delete of a pair that has a row, the other pair having one
\* as well.
C32_WitnessPut ==
    /\ lastOp.op = "put" /\ ~lastOp.raised
    /\ lastOp.key \in DOMAIN lastOp.before
    /\ store[lastOp.key] # lastOp.before[lastOp.key]
    /\ \E k \in StoreKeys \ {lastOp.key} : k \in DOMAIN store

C32_WitnessDelete ==
    /\ lastOp.op = "delete"
    /\ lastOp.key \in DOMAIN lastOp.before
    /\ \E k \in StoreKeys \ {lastOp.key} : k \in DOMAIN store

\* A get of a pair without a row.
C32_WitnessGet ==
    /\ lastOp.op = "get"
    /\ lastOp.row = NoRow
    /\ lastOp.key \notin DOMAIN store
    /\ store # EmptyMap

(***************************************************************************)
(* Claims about stops that arrive during execute() (SpecStopping)          *)
(***************************************************************************)
\* The handler of Agent e has run for a stop message since execute() was
\* entered and execute() has not ended.  (The stops of SpecStopping are sent
\* during execute(), and nothing but the handler sets _status to stopped
\* before the test of line 93 does.)
StopHandled(e) == pc[e] \notin {"idle", "absent"} /\ agent_status[e] = "stopped"

\* execute() of Agent e has been entered and has not ended.
StopCanArrive(e) == pc[e] \notin {"idle", "absent"}

\* The stop messages the handler of Agent e has been run for.  (Every message of
\* SpecStopping is a stop message, sent while execute() of its receiver is in
\* progress; an Agent is executed once and leaves the channel when execute() ends.)
HandledStops(e) == {i \in 1..Len(dispatched) : dispatched[i].handler = e}

\* C33: once the stop handler of an Agent has run during its execute(), be it
\* during initialize_state or during the last step, an execute() that returns
\* has persisted status stopped, never completed.
C33_StopHandledStops ==
    \A e \in Engines :
       (ended[e] = "returned" /\ HandledStops(e) # {})
          => exit_row[e].status = "stopped"

\* Every dispatch to the handler of an Agent happens while its execute() is in
\* progress, so HandledStops(e) counts the stops handled between entry and return.
C33_HandledDuringExecute ==
    [][\A e \in Engines :
          (/\ Len(dispatched') = Len(dispatched) + 1
           /\ dispatched'[Len(dispatched')].handler = e) => StopCanArrive(e)]_vars

\* The two cases the claim names, as they end in the code: the handler ran
\* while initialize_state was awaited, and while the last step was in progress.
C33_HandledAtEntry ==
    \A e \in Engines :
       []((StopHandled(e) /\ pc[e] = "w_init")
             => [](ended[e] = "returned" => exit_row[e].status = "stopped"))

C33_HandledInLastStep ==
    \A e \in Engines :
       []((StopHandled(e) /\ pc[e] \in {"w_step", "tool", "w_record"}
                          /\ step_idx[e] = Len(Steps(e)))
             => [](ended[e] = "returned" => exit_row[e].status = "stopped"))

\* A stop handled with a test of line 93 still ahead does stop the run.
C33_HandledBeforeBoundary ==
    \A e \in Engines :
       []((StopHandled(e) /\ BoundaryAhead(e))
             => [](ended[e] = "returned" => exit_row[e].status = "stopped"))

(***************************************************************************)
(* Claims about the termination of execute() (SpecExecuteLive)             *)
(***************************************************************************)
\* The store answers every write and every tool invocation returns: each
\* await of execute() that is not the dispatch loop eventually resumes; the
\* dispatch loop takes every message that is put on the queue.
ExecuteFairness ==
    /\ \A e \in Engines :
          /\ WF_vars(InitWritten(e))
          /\ WF_vars(RunningWritten(e))
          /\ WF_vars(StepWritten(e))
          /\ WF_vars(ToolReturns(e))
          /\ WF_vars(RecordWritten(e))
          /\ WF_vars(FinalWritten(e))
    /\ \A t \in Tasks \cup Engines :
          WF_vars(DispatchCallback(t)) /\ WF_vars(DispatchEngine(t))

SpecExecuteLive == InitSpec /\ [][NextStopping]_vars /\ ExecuteFairness

\* execute() of Agent e is in progress.
Executing(e) == pc[e] \notin {"idle", "absent"}

\* C34: with a store that answers and tools that return, every execute()
\* ends, whether the channel was running when execute() was entered or not.
C34_ExecuteTerminates ==
    \A e \in Engines : [](Executing(e) => <>(~Executing(e)))

\* The case of a channel that runs when line 87 is reached: a task is its
\* dispatch loop, and execute() ends.
C34_TerminatesOnRunningChannel ==
    \A e \in Engines :
       []((Executing(e) /\ chan_pc["t1"] = "in_loop") => <>(~Executing(e)))

\* The Engine that has started the channel itself never leaves the loop.
C34_StartingNeverEnds ==
    \A e \in Engines :
       []((pc[e] = "starting" /\ chan_pc[e] = "in_loop") => [](pc[e] = "starting"))

(***************************************************************************)
(* Claims about the exit of execute(), continued (SpecCancel)              *)
(***************************************************************************)
\* C35: whenever execute() has ended, by return, by an exception or by the
\* cancellation of the per-agent timeout, the persisted row of the Agent has
\* status completed, failed or stopped, never initialized or running.
C35_ExitStatusTerminal ==
    \A e \in Engines : ended[e] # "none" => exit_row[e].status \in Terminal

\* The same for the exits by cancellation alone, and for the exits of a run
\* whose writes all succeeded and that nobody cancelled.
C35_CancelledExitTerminal ==
    \A e \in Engines : ended[e] = "cancelled" => exit_row[e].status \in Terminal

C35_UndisturbedExitTerminal ==
    \A e \in Engines :
       (ended[e] \in {"returned", "raised"} /\ ~faulted[e])
          => exit_row[e].status \in Terminal

(***************************************************************************)
(* Claims about the channel, continued (SpecChannel, SpecChannelLive)      *)
(***************************************************************************)
\* The premise of C36: whenever _running is set, some task is inside the loop
\* of _process_messages, also after the task that called start() was cancelled.
C36_RunningHasLoop ==
    running => \E t \in DOMAIN chan_pc : chan_pc[t] = "in_loop"

\* C36: every message send() has accepted (it accepts while _running is set)
\* is eventually taken off the queue, by the dispatch loop or by the stop()
\* that clears the queue, in every reachable state, also after the task that
\* called start() has been cancelled.
C36_AcceptedEventuallyDequeued ==
    \A i \in 1..(MaxMsgs + 1) :
       []((\E k \in 1..Len(accepted) : accepted[k] = i)
             => <>(\A k \in 1..Len(queue) : queue[k].id # i))

\* The cancellation of the timeout has been delivered to execute() of Agent
\* e: execute() has ended by it, or it was delivered inside start() and the
\* dispatch loop has ended (in SpecCancel nothing else ends a loop or leaves
\* _running set without one).
CancelDelivered(e) ==
    \/ ended[e] = "cancelled"
    \/ /\ Executing(e)
       /\ pc[e] # "starting"
       /\ running
       /\ \A t \in DOMAIN chan_pc : chan_pc[t] # "in_loop"

\* C37: once the timeout has cancelled the run of an Agent, its Engine
\* invokes no further tool and writes nothing more to the store.
C37_NothingAfterCancel ==
    [][(\E e \in Engines : CancelDelivered(e)) => (calls' = calls /\ store' = store)]_vars

\* The same for the cancellations that end execute().
C37_NothingAfterCancelledExit ==
    [][(\E e \in Engines : ended[e] = "cancelled") => (calls' = calls /\ store' = store)]_vars

(***************************************************************************)
(* Claims about process_agent and its Engine (SpecProcess)                 *)
(***************************************************************************)
\* process_agent has returned or been cancelled for the Agent e.
ProcessAgentDone(e) ==
    /\ ended[e] # "none"
    /\ cfg[e].name \in DOMAIN execution_status
    /\ (execution_status[cfg[e].name] # "Starting" \/ outcomes # <<>>)

\* C38: once process_agent is through with an Agent, the status snapshot shows
\* "completed" for it only if the row the Engine has persisted has status
\* completed: a run that ended stopped or failed is not shown as completed.
C38_CompletedOnlyIfPersisted ==
    \A e \in Engines :
       (/\ cfg[e].name \in DOMAIN execution_status
        /\ execution_status[cfg[e].name] = "completed")
          => /\ ProcessAgentDone(e)
             /\ ended[e] = "returned"
             /\ exit_row[e].status = "completed"
             /\ StatusOf(store, Key(e)) = "completed"

\* An Agent whose run went through its steps (after the cancellation inside
\* start()) and returned, shown as completed.
C38_Witness ==
    /\ "alpha" \in DOMAIN execution_status
    /\ execution_status["alpha"] = "completed"
    /\ ended["e1"] = "returned"
    /\ StatusOf(store, Key("e1")) = "completed"
    /\ DOMAIN exit_row["e1"].step_results # {}

\* Runs that ended failed and runs that were cut off, shown as such.
C38_WitnessFailed ==
    /\ "alpha" \in DOMAIN execution_status
    /\ execution_status["alpha"] = "failed"
    /\ ended["e1"] = "raised"
    /\ StatusOf(store, Key("e1")) = "failed"

C38_WitnessTimeout ==
    /\ "alpha" \in DOMAIN execution_status
    /\ execution_status["alpha"] = "timeout"
    /\ ended["e1"] = "cancelled"
    /\ StatusOf(store, Key("e1")) = "running"

\* The return of execute() in SpecProcess is always the one of line 107: no
\* stop message reaches an Agent whose channel nobody else holds.
C38_ReturnedMeansCompleted ==
    \A e \in Engines : ended[e] = "returned" => exit_row[e].status = "completed"

(***************************************************************************)
(* Claims about the Engine, continued (Spec)                               *)
(***************************************************************************)
\* The tools of the Agent's list that pass the test of _validate_agent_data
\* (generator.py lines 193-204): the names list_tools() returns.
ValidatedTools(e) == {n \in ListedTools(e) : n \in AvailableTools}

\* C39: every tool name that has passed the generator's validation is found
\* by get_tool when a step is executed: no step is recorded without a result
\* of a validated tool of the list.
C39_ValidatedToolsFound ==
    \A e \in Engines :
       pc[e] # "absent" =>
          \A s \in DOMAIN GetState(store, Key(e)).step_results :
             \A n \in ValidatedTools(e) :
                /\ GetTool(n) # "none"
                /\ n \in DOMAIN GetState(store, Key(e)).step_results[s]

\* With every validated tool registered no tool is skipped.
C39_FoundWhenRegistered ==
    \A e \in Engines :
       (pc[e] # "absent" /\ ValidatedTools(e) \subseteq DOMAIN registry_tools) =>
          \A s \in DOMAIN GetState(store, Key(e)).step_results :
             ValidatedTools(e) \subseteq DOMAIN GetState(store, Key(e)).step_results[s]

(***************************************************************************)
(* Claims about Agents that share a channel (SpecShared)                   *)
(***************************************************************************)
\* The handler registered under the name of Agent x is the one of x.
Registered(subs, x) == cfg[x].name \in DOMAIN subs /\ subs[cfg[x].name] = x

\* execute() of Agent e ends in this step.
Exits(e) == ended[e] = "none" /\ ended'[e] # "none"

\* C40: on a shared channel the exit of one Agent removes its own
\* subscription only: the handler of every other Agent whose execute() is in
\* progress stays registered, also when the two Agents have the same name.
C40_ExitKeepsOtherHandlers ==
    [][\A e, x \in Engines :
          (e # x /\ Exits(e) /\ Executing(x) /\ Registered(subscribers, x))
             => Registered(subscribers', x)]_vars

\* The same for Agents of different names.
C40_ExitKeepsOtherNames ==
    [][\A e, x \in Engines :
          (e # x /\ cfg[e].name # cfg[x].name
                 /\ Exits(e) /\ Executing(x) /\ Registered(subscribers, x))
             => Registered(subscribers', x)]_vars

\* An Agent has ended while the other, of another name, was in the middle of
\* its steps with its handler registered.
C40_WitnessOtherName ==
    /\ cfg["e1"].name # cfg["e2"].name
    /\ ended["e1"] = "returned"
    /\ Executing("e2") /\ step_idx["e2"] >= 1
    /\ Registered(subscribers, "e2")
    /\ cfg["e1"].name \notin DOMAIN subscribers

====
